---- MODULE Spec2Model ----
(***************************************************************************)
(* TDK-Lambda ZUP serial driver (lambda_zup.py): the LambdaZup class, its  *)
(* lock, the framing of commands, the address-select prefix, the model     *)
(* dependent number formats and the parsing of replies.                    *)
(*                                                                         *)
(* Text is a sequence of one-character strings, so that slicing, padding   *)
(* and stripping are computed character by character as Python does.       *)
(* A number handed to a setter is an exact multiple of 1/Unit volt or      *)
(* ampere (see IsValue); negative zero is not a value of the model.        *)
(***************************************************************************)
EXTENDS Integers, Sequences, FiniteSets, TLC

(***************************************************************************)
(* Text helpers (Python str operations used by the driver)                 *)
(***************************************************************************)
DigitChars == <<"0", "1", "2", "3", "4", "5", "6", "7", "8", "9">>

IsDigit(c) == \E i \in 1..10 : DigitChars[i] = c

DigitVal(c) == (CHOOSE i \in 1..10 : DigitChars[i] = c) - 1

IsWS(c) == c \in {" ", "\t", "\n", "\r"}

Min(a, b) == IF a <= b THEN a ELSE b

Max(a, b) == IF a >= b THEN a ELSE b

RECURSIVE Pow10(_)
Pow10(k) == IF k = 0 THEN 1 ELSE 10 * Pow10(k - 1)

\* str(n) for n >= 0
RECURSIVE Digits(_)
Digits(n) == IF n < 10 THEN <<DigitChars[n + 1]>>
             ELSE Digits(n \div 10) \o <<DigitChars[(n % 10) + 1]>>

\* left-pad with "0" to at least w characters (the 0 flag of a format)
RECURSIVE ZeroPad(_, _)
ZeroPad(s, w) == IF Len(s) >= w THEN s ELSE ZeroPad(<<"0">> \o s, w)

\* s.rstrip()
RECURSIVE RStrip(_)
RStrip(s) == IF s # <<>> /\ IsWS(s[Len(s)]) THEN RStrip(SubSeq(s, 1, Len(s) - 1))
             ELSE s

\* s[:k]
Prefix(s, k) == SubSeq(s, 1, Min(k, Len(s)))

\* s.replace(a, b) for single characters
Replace(s, a, b) == [i \in 1..Len(s) |-> IF s[i] = a THEN b ELSE s[i]]

\* s.split(): the maximal runs of non-whitespace characters
RECURSIVE SplitFrom(_, _, _)
SplitFrom(s, i, cur) ==
    IF i > Len(s) THEN (IF cur = <<>> THEN <<>> ELSE <<cur>>)
    ELSE IF IsWS(s[i])
         THEN (IF cur = <<>> THEN <<>> ELSE <<cur>>) \o SplitFrom(s, i + 1, <<>>)
         ELSE SplitFrom(s, i + 1, Append(cur, s[i]))

Split(s) == SplitFrom(s, 1, <<>>)

RECURSIVE NatOf(_)
NatOf(s) == IF s = <<>> THEN 0 ELSE 10 * NatOf(SubSeq(s, 1, Len(s) - 1)) + DigitVal(s[Len(s)])

AllDigits(s) == s # <<>> /\ \A i \in 1..Len(s) : IsDigit(s[i])

(***************************************************************************)
(* Numbers.  A magnitude m (volts or amperes) is the integer m * Unit.     *)
(* The magnitudes of the model are the decimals with two places and the    *)
(* binary fractions k/32: for these, rounding the exact value half-to-even *)
(* is what Python's float formatting does (a tie can only occur at a value *)
(* that a float represents exactly).  A float is a sign and a magnitude,   *)
(* so that 0.0 and -0.0 are two floats that compare equal.                 *)
(***************************************************************************)
Unit == 32 * 25

IsValue(n) == n % 8 = 0 \/ n % 25 = 0

Flt(neg, mag) == [neg |-> neg, mag |-> mag]

\* the number a float compares as
Num(x) == IF x.neg THEN 0 - x.mag ELSE x.mag

RoundHalfEven(num, den) ==
    LET q == num \div den
        r == num % den
    IN  IF 2 * r > den \/ (2 * r = den /\ q % 2 = 1) THEN q + 1 ELSE q

\* the digits of |v| with d decimals: "<int>.<d digits>"
FixedBody(d, n) ==
    LET scaled == RoundHalfEven(n * Pow10(d), Unit)
    IN  Digits(scaled \div Pow10(d)) \o <<".">> \o ZeroPad(Digits(scaled % Pow10(d)), d)

\* "{:0w.df}".format(x) and "%w.df" % x for w <= 1: the sign of the float, then
\* zero padding to width w
FormatF(w, d, x) ==
    IF x.neg THEN <<"-">> \o ZeroPad(FixedBody(d, x.mag), w - 1)
    ELSE ZeroPad(FixedBody(d, x.mag), w)

\* "%i" % n: the address without its leading zero
Format02i_unpadded(n) ==
    IF n < 0 THEN <<"-">> \o Digits(0 - n) ELSE Digits(n)

\* "%02i" % n
Format02i(n) ==
    IF n < 0 THEN <<"-">> \o ZeroPad(Digits(0 - n), 1) ELSE ZeroPad(Digits(n), 2)

\* int(s): optional sign and decimal digits, anything else is a ValueError
ParseInt(s) ==
    LET signed == s # <<>> /\ s[1] \in {"+", "-"}
        body   == IF signed THEN Tail(s) ELSE s
    IN  IF AllDigits(body)
        THEN [ok |-> TRUE, val |-> IF signed /\ s[1] = "-" THEN 0 - NatOf(body) ELSE NatOf(body)]
        ELSE [ok |-> FALSE, val |-> 0]

\* float(s) for plain decimal numerals: [sign] digits [. digits] or [sign] . digits
ParseFloat(s) ==
    LET signed == s # <<>> /\ s[1] \in {"+", "-"}
        body   == IF signed THEN Tail(s) ELSE s
        dots   == {i \in 1..Len(body) : body[i] = "."}
        dot    == IF dots = {} THEN Len(body) + 1 ELSE CHOOSE i \in dots : TRUE
        ip     == SubSeq(body, 1, dot - 1)
        fp     == SubSeq(body, dot + 1, Len(body))
        wellformed == /\ Cardinality(dots) <= 1
                      /\ \A i \in 1..Len(ip) : IsDigit(ip[i])
                      /\ \A i \in 1..Len(fp) : IsDigit(fp[i])
                      /\ Len(ip) + Len(fp) > 0
        mag    == NatOf(ip) * Unit + (NatOf(fp) * Unit) \div Pow10(Len(fp))
    IN  IF wellformed
        THEN [ok |-> TRUE, val |-> IF signed /\ s[1] = "-" THEN 0 - mag ELSE mag]
        ELSE [ok |-> FALSE, val |-> 0]

(***************************************************************************)
(* Format strings for setting voltage and current                          *)
(***************************************************************************)
Fmt(w, d) == [w |-> w, d |-> d]

\* v_format_strs: key max voltage, value {:0total_char.decimalsf}
v_format_strs ==
    (6 :> Fmt(5, 3)) @@ (10 :> Fmt(6, 3)) @@ (20 :> Fmt(6, 3)) @@ (36 :> Fmt(5, 2)) @@
    (60 :> Fmt(5, 2)) @@ (80 :> Fmt(5, 2)) @@ (120 :> Fmt(6, 2))

Amp(whole, tenths) == whole * Unit + (tenths * Unit) \div 10

\* i_format_strs: key (max voltage, max current)
i_format_strs ==
    (<<6, Amp(33, 0)>> :> Fmt(5, 2)) @@ (<<6, Amp(66, 0)>> :> Fmt(5, 2)) @@
    (<<6, Amp(132, 0)>> :> Fmt(6, 2)) @@
    (<<10, Amp(20, 0)>> :> Fmt(6, 3)) @@ (<<10, Amp(40, 0)>> :> Fmt(5, 2)) @@
    (<<10, Amp(80, 0)>> :> Fmt(5, 2)) @@
    (<<20, Amp(10, 0)>> :> Fmt(6, 3)) @@ (<<20, Amp(20, 0)>> :> Fmt(6, 3)) @@
    (<<20, Amp(40, 0)>> :> Fmt(5, 2)) @@
    (<<36, Amp(6, 0)>> :> Fmt(5, 3)) @@ (<<36, Amp(12, 0)>> :> Fmt(6, 3)) @@
    (<<36, Amp(24, 0)>> :> Fmt(6, 3)) @@
    (<<60, Amp(3, 5)>> :> Fmt(5, 3)) @@ (<<60, Amp(7, 0)>> :> Fmt(5, 3)) @@
    (<<60, Amp(14, 0)>> :> Fmt(6, 3)) @@
    (<<80, Amp(2, 5)>> :> Fmt(6, 4)) @@ (<<80, Amp(5, 0)>> :> Fmt(5, 3)) @@
    (<<120, Amp(1, 8)>> :> Fmt(6, 4)) @@ (<<120, Amp(3, 6)>> :> Fmt(5, 3))

(***************************************************************************)
(* Commands and replies of the wire protocol                               *)
(***************************************************************************)
\* ":ADR%02i;" % adr
AdrCmd(adr) == <<":", "A", "D", "R">> \o Format02i(adr) \o <<";">>

IsAdrCmd(data) == Len(data) >= 5 /\ SubSeq(data, 1, 4) = <<":", "A", "D", "R">>

CmdDCL  == <<":", "D", "C", "L", ";">>
CmdMDLq == <<":", "M", "D", "L", "?", ";">>
CmdREVq == <<":", "R", "E", "V", "?", ";">>
CmdOUTq == <<":", "O", "U", "T", "?", ";">>
CmdFLDq == <<":", "F", "L", "D", "?", ";">>
CmdASTq == <<":", "A", "S", "T", "?", ";">>

CmdRMTq == <<":", "R", "M", "T", "?", ";">>
CmdVOLs == <<":", "V", "O", "L", "!", ";">>
CmdVOLq == <<":", "V", "O", "L", "?", ";">>
CmdCURs == <<":", "C", "U", "R", "!", ";">>
CmdCURq == <<":", "C", "U", "R", "?", ";">>
CmdOVPq == <<":", "O", "V", "P", "?", ";">>
CmdUVPq == <<":", "U", "V", "P", "?", ";">>
\* a status query that clears the registers
CmdSTTq_clearing == <<":", "D", "C", "L", ";">>

CmdSTTq == <<":", "S", "T", "T", "?", ";">>

CmdVOL(arg) == <<":", "V", "O", "L">> \o arg \o <<";">>
CmdRMT(arg) == <<":", "R", "M", "T">> \o arg \o <<";">>
CmdOUT(arg) == <<":", "O", "U", "T">> \o arg \o <<";">>
CmdFLD(arg) == <<":", "F", "L", "D">> \o arg \o <<";">>
CmdAST(arg) == <<":", "A", "S", "T">> \o arg \o <<";">>
CmdCUR(arg) == <<":", "C", "U", "R">> \o arg \o <<";">>
CmdOVP(arg) == <<":", "O", "V", "P">> \o arg \o <<";">>
CmdUVP(arg) == <<":", "U", "V", "P">> \o arg \o <<";">>

EOL == <<"\r", "\n">>

(***************************************************************************)
(* The device and the caller: the lines a unit may send back and the       *)
(* arguments a caller may pass.  These are the inputs of the model.        *)
(***************************************************************************)
\* "Ver XX-YY A.B": the rated voltages and currents of delivered units, and some
\* that no table knows
RatedTexts ==
    { <<<<"6">>, <<"3", "3">>>>, <<<<"6">>, <<"6", "6">>>>, <<<<"6">>, <<"1", "3", "2">>>>,
      <<<<"1", "0">>, <<"2", "0">>>>, <<<<"1", "0">>, <<"4", "0">>>>,
      <<<<"1", "0">>, <<"8", "0">>>>,
      <<<<"2", "0">>, <<"1", "0">>>>, <<<<"2", "0">>, <<"2", "0">>>>,
      <<<<"2", "0">>, <<"4", "0">>>>,
      <<<<"3", "6">>, <<"6">>>>, <<<<"3", "6">>, <<"1", "2">>>>, <<<<"3", "6">>, <<"2", "4">>>>,
      <<<<"6", "0">>, <<"3", ".", "5">>>>, <<<<"6", "0">>, <<"7">>>>,
      <<<<"6", "0">>, <<"1", "4">>>>,
      <<<<"8", "0">>, <<"2", ".", "5">>>>, <<<<"8", "0">>, <<"5">>>>,
      <<<<"1", "2", "0">>, <<"1", ".", "8">>>>, <<<<"1", "2", "0">>, <<"3", ".", "6">>>> }

UnratedTexts ==
    { <<<<"7">>, <<"3", "3">>>>, <<<<"6">>, <<"3", "4">>>>, <<<<"4", "0">>, <<"1", "0">>>> }

RevLine(vtxt, atxt) ==
    <<"V", "e", "r", " ">> \o vtxt \o <<"-">> \o atxt \o <<" ", "1", ".", "0">> \o EOL

RevLines == {RevLine(m[1], m[2]) : m \in RatedTexts \cup UnratedTexts}

BadRevLines ==
    { <<"V", "e", "r", " ", "6", "-", "3", "3">> \o EOL,
      <<"V", "e", "r", " ", "6", "-", "x", " ", "1", ".", "0">> \o EOL,
      <<"V", "e", "r", " ", "x", "-", "3", "3", " ", "1", ".", "0">> \o EOL }

ModelLines == { <<"Z", "U", "P", "(", "6", "V", "-", "3", "3", "A", ")">> \o EOL }

BoolTags == { <<"O", "T">>, <<"F", "D">>, <<"A", "S">> }

BoolSuffixes == { <<>>, <<"0">>, <<"1">>, <<"2">>, <<"1", "0">>, <<"0", "1">> }

\* what a unit may answer to a status query: every tag with every suffix, with and
\* without the line end, with a leading blank, and a bare line end
BoolLines ==
    {tg \o sf \o e : tg \in BoolTags, sf \in BoolSuffixes, e \in {EOL, <<>>, <<" ">> \o EOL}}
    \cup {<<" ">> \o tg \o <<"1">> \o EOL : tg \in BoolTags}
    \cup {EOL}

\* a reply to :STT?; made of its seven fields
Report(av, sv, aa, sa, os, al, ps) ==
    [av |-> av, sv |-> sv, aa |-> aa, sa |-> sa, os |-> os, al |-> al, ps |-> ps]

StatusLine(r) ==
    <<"A", "V">> \o r.av \o <<"S", "V">> \o r.sv \o <<"A", "A">> \o r.aa
    \o <<"S", "A">> \o r.sa \o <<"O", "S">> \o r.os \o <<"A", "L">> \o r.al
    \o <<"P", "S">> \o r.ps

\* a register of n bits: all 0, all 1, all 0 but bit i (counted from 1)
Zeros(n) == [j \in 1..n |-> "0"]

Ones(n) == [j \in 1..n |-> "1"]

OneHot(n, i) == [j \in 1..n |-> IF j = i THEN "1" ELSE "0"]

\* a report with the values of the documented example
\* AV5.010SV5.010AA00.00SA24.31OS00010000AL00000PS00000 and the given registers
ExampleWith(os, al, ps) ==
    Report(<<"5", ".", "0", "1", "0">>, <<"5", ".", "0", "1", "0">>, <<"0", "0", ".", "0", "0">>, <<"2", "4", ".", "3", "1">>, os, al, ps)

\* the reports of a unit in order: the documented example, every bit of every
\* register alone, all bits, other values
StatusReports ==
    {ExampleWith(OneHot(8, 4), Zeros(5), Zeros(5)), ExampleWith(Ones(8), Ones(5), Ones(5))}
    \cup {ExampleWith(OneHot(8, i), Zeros(5), Zeros(5)) : i \in 1..8}
    \cup {ExampleWith(OneHot(8, 8), OneHot(5, i), Zeros(5)) : i \in 1..5}
    \cup {ExampleWith(OneHot(8, 8), OneHot(5, 5), OneHot(5, i)) : i \in 1..5}
    \cup {Report(<<"+", "1", "2", ".", "5">>, <<"-", ".", "5">>, <<"0", ".", "2", "5">>, <<".", "5">>, OneHot(8, 4), Zeros(5), Zeros(5))}

\* reports with registers longer or shorter than the unit's, or with a digit that
\* is no bit
OddStatusReports ==
    {ExampleWith(Zeros(9), Zeros(6), Zeros(6)), ExampleWith(Zeros(7), Zeros(5), Zeros(5)),
     ExampleWith(OneHot(8, 4), Ones(4), Ones(5)), ExampleWith(OneHot(8, 4), Ones(5), Ones(4)),
     ExampleWith(<<"1">>, <<"1">>, <<"1">>),
     ExampleWith(<<"0", "0", "0", "2", "0", "0", "0", "0">>, Zeros(5), Zeros(5))}

\* lines that are no report: nothing, a voltage without a point, a blank between
\* two fields, no programming register, small letters, the reply of another query,
\* and a report between other characters
OtherStatusLines ==
    { <<>>,
      StatusLine(Report(<<"5">>, <<"5", ".", "0", "1", "0">>, <<"0", "0", ".", "0", "0">>, <<"2", "4", ".", "3", "1">>, OneHot(8, 4), Zeros(5), Zeros(5))),
      <<"A", "V">> \o <<"5", ".", "0", "1", "0">> \o <<" ">> \o <<"S", "V">> \o <<"5", ".", "0", "1", "0">> \o <<"A", "A">> \o <<"0", "0", ".", "0", "0">>
          \o <<"S", "A">> \o <<"2", "4", ".", "3", "1">> \o <<"O", "S">> \o OneHot(8, 4) \o <<"A", "L">> \o Zeros(5)
          \o <<"P", "S">> \o Zeros(5),
      <<"A", "V">> \o <<"5", ".", "0", "1", "0">> \o <<"S", "V">> \o <<"5", ".", "0", "1", "0">> \o <<"A", "A">> \o <<"0", "0", ".", "0", "0">>
          \o <<"S", "A">> \o <<"2", "4", ".", "3", "1">> \o <<"O", "S">> \o OneHot(8, 4) \o <<"A", "L">> \o Zeros(5),
      <<"a", "v">> \o <<"5", ".", "0", "1", "0">> \o <<"s", "v">> \o <<"5", ".", "0", "1", "0">> \o <<"a", "a">> \o <<"0", "0", ".", "0", "0">>
          \o <<"s", "a">> \o <<"2", "4", ".", "3", "1">> \o <<"o", "s">> \o OneHot(8, 4) \o <<"a", "l">> \o Zeros(5)
          \o <<"p", "s">> \o Zeros(5),
      <<"O", "T", "1">>,
      <<"?", "?">> \o StatusLine(ExampleWith(OneHot(8, 4), Zeros(5), Zeros(5))) \o <<"?">> }

StatusLines ==
    {StatusLine(r) \o EOL : r \in StatusReports \cup OddStatusReports}
    \cup {x \o EOL : x \in OtherStatusLines}

\* what a unit may answer to :RMT?;
RemoteLines == { <<"R", "M", "1">> \o EOL, <<"R", "M", "2">> \o EOL }

\* the lines the device may send when it receives `data`; it may also stay silent
DeviceReplies(data) ==
    IF data = CmdMDLq THEN ModelLines
    ELSE IF data = CmdRMTq THEN RemoteLines
    ELSE IF data = CmdSTTq THEN StatusLines
    ELSE IF data = CmdREVq THEN RevLines \cup BadRevLines
    ELSE IF data \in {CmdOUTq, CmdFLDq, CmdASTq} THEN BoolLines
    ELSE {}

\* the six getters of a number: the query each sends, the tag it asserts and the
\* attribute it stores
ScalarGetters ==
    "get_voltage_setp" :>
        [cmd |-> CmdVOLs, tag |-> <<"S", "V">>, attr |-> "voltage_setp"]
    @@ "get_voltage_actual" :>
        [cmd |-> CmdVOLq, tag |-> <<"A", "V">>, attr |-> "voltage_actual"]
    @@ "get_current_setp" :>
        [cmd |-> CmdCURs, tag |-> <<"S", "A">>, attr |-> "current_setp"]
    @@ "get_current_actual" :>
        [cmd |-> CmdCURq, tag |-> <<"A", "A">>, attr |-> "current_actual"]
    @@ "get_over_voltage_protection" :>
        [cmd |-> CmdOVPq, tag |-> <<"O", "P">>, attr |-> "over_voltage"]
    @@ "get_under_voltage_protection" :>
        [cmd |-> CmdUVPq, tag |-> <<"U", "P">>, attr |-> "under_voltage"]

\* the tags of the replies to the nine getters of one value
ReplyTags == {ScalarGetters[g].tag : g \in DOMAIN ScalarGetters} \cup BoolTags

\* a reply of any of the nine tags, with the value 5.010 or with none
TaggedLines ==
    {tg \o pl \o EOL : tg \in ReplyTags, pl \in {<<"5", ".", "0", "1", "0">>, <<>>}}

\* the line a unit in order sends when it receives `data`
NominalReplies(data) ==
    IF data = CmdMDLq THEN ModelLines
    ELSE IF data = CmdREVq THEN {RevLine(<<"6">>, <<"3", "3">>)}
    ELSE IF data = CmdOUTq THEN {<<"O", "T", "1">> \o EOL}
    ELSE IF data = CmdFLDq THEN {<<"F", "D", "0">> \o EOL}
    ELSE IF data = CmdASTq THEN {<<"A", "S", "0">> \o EOL}
    ELSE {<<>>}

(***************************************************************************)
(* State                                                                   *)
(***************************************************************************)
\* ps1 and ps2 of ps_initialization.py
Drivers == {1, 2}

\* the serial objects (transports)
Ports == {1, 2}

\* the thread of the single-threaded specifications, whose caller looks at what
\* each call did, and two worker threads, whose callers do not
SeqThreads == {"main"}

Workers == {"w1", "w2"}

Threads == SeqThreads \cup Workers

VARIABLES
    address,              \* self.address, per driver
    always_send_address,  \* self.always_send_address
    ser,                  \* self.ser: the transport the driver uses
    lock,                 \* self.lock: an RLock, <<>> or <<owner>> and its depth
    max_voltage,          \* self.max_voltage, <<>> while the attribute does not exist
    max_current,          \* self.max_current
    software_revision,    \* self.software_revision
    model,                \* self.model
    output,               \* self.output
    foldback_armed,       \* self.foldback_armed
    auto_restart_mode,    \* self.auto_restart_mode
    readings,             \* per driver: self.voltage_setp, self.voltage_actual,
                          \* self.current_setp, self.current_actual, self.over_voltage,
                          \* self.under_voltage, self.remote_mode
    complete_status,      \* per driver: the registers and flags that only
                          \* get_complete_status stores
    unit,                 \* per transport: how the unit on it answers
    is_open,              \* per transport: the port is open
    rx,                   \* per transport: lines received and not yet read
    wire,                 \* per transport: the last two writes or reads made on it, in order
    sent,                 \* per driver: the last write or read it made, <<>> if none
    pc,                   \* per thread: where it is in the call it makes
    frame,                \* per thread: the call it is in and the locals of that call
    outcome               \* per thread: its last finished call, as its caller saw it

identity == <<max_voltage, max_current, software_revision, model>>

flags == <<output, foldback_armed, auto_restart_mode>>

config == <<always_send_address, ser, unit>>

stored == <<readings, complete_status>>

vars == <<readings, complete_status, unit,
          address, always_send_address, ser, lock, max_voltage, max_current,
          software_revision, model, output, foldback_armed, auto_restart_mode,
          is_open, rx, wire, sent, pc, frame, outcome>>

log == <<wire, sent>>

\* what the unit on transport p may send when it receives `data` (<<>>: nothing):
\* a unit that answers anything or not at all ("any"), one that answers with the
\* reply of any of the nine getters or not at all ("tagged"), a unit in order
\* ("nominal"), a unit that is off
Answers(p, data) ==
    IF unit[p] = "any" THEN DeviceReplies(data) \cup {<<>>}
    ELSE IF unit[p] = "tagged" THEN TaggedLines \cup {<<>>}
    ELSE IF unit[p] = "nominal" THEN NominalReplies(data)
    ELSE {<<>>}

Free == [owner |-> <<>>, count |-> 0]

\* a lock that excludes nobody
LockAvailable_always(d, t) == TRUE

\* threading.RLock.acquire() returns when the lock is free or held by the caller
LockAvailable(d, t) == lock[d].owner \in {<<>>, <<t>>}

Acquired(d, t) == [lock EXCEPT ![d] = [owner |-> <<t>>, count |-> @.count + 1]]

Released(d) == [lock EXCEPT ![d] = IF @.count <= 1 THEN Free
                                   ELSE [owner |-> @.owner, count |-> @.count - 1]]

\* an exception that leaves the lock as it was
Unwound_held(t) == lock

\* an exception leaves every `with self.lock` block the thread is in
Unwound(t) == [d \in Drivers |-> IF lock[d].owner = <<t>> THEN Free ELSE lock[d]]

IdleFrame == [self |-> 1, op |-> "none", arg |-> <<>>, loc |-> <<>>, cmd |-> <<>>,
              via |-> "none", resp |-> <<>>, wrote |-> <<>>]

Quiet == \A u \in Threads : pc[u] = "idle"

NoCall == [op |-> "none", arg |-> <<>>, status |-> "none", val |-> <<>>, wrote |-> <<>>]

\* what the caller keeps of a finished call: the main thread all of it, a worker nothing
Seen(t, op, arg, status, val, wrote) ==
    IF t \in SeqThreads
    THEN [op |-> op, arg |-> arg, status |-> status, val |-> val, wrote |-> wrote]
    ELSE NoCall

\* The record of transport events starts afresh when a call begins while no
\* other call is in progress.
Fresh(w) == IF Quiet THEN [x \in DOMAIN w |-> <<>>] ELSE w

\* a transport's record with one more event: the event before it, and it
Logged(p, e) == [wire EXCEPT ![p] = IF @ = <<>> THEN <<e>> ELSE <<@[Len(@)], e>>]

\* an event on a transport: which driver made it, and whether it is an
\* address-select ("select": the prefix of _write or the command of set_address),
\* another command ("cmd") or a read ("read")
OnWire(io, d, data) == [io |-> IF io # "read" /\ IsAdrCmd(data) THEN "select" ELSE io, drv |-> d]

\* an event of a driver: the prefix of _write ("adr"), a command ("cmd") or a read
\* ("read"), the thread that made it and, for a read, the thread whose query the
\* line answers
Sent(io, t, to) == [io |-> io, thr |-> t, to |-> to]

\* what a call has written and read so far
Wrote(t, io, data) == [frame EXCEPT ![t].wrote = Append(@, [io |-> io, data |-> data])]

\* A thread enters a public method of driver d, the driver it holds.
Begin(t, d, op, arg, loc, cmd, via, at) ==
    /\ pc[t] = "idle"
    /\ frame[t].self = d
    /\ pc' = [pc EXCEPT ![t] = at]
    /\ frame' = [frame EXCEPT ![t] = [self |-> d, op |-> op, arg |-> arg, loc |-> loc,
                                      cmd |-> cmd, via |-> via, resp |-> <<>>,
                                      wrote |-> <<>>]]
    /\ outcome' = [outcome EXCEPT ![t] = NoCall]
    /\ wire' = Fresh(wire)
    /\ sent' = Fresh(sent)

\* a call that raises before it reaches _write
Rejected(t, d, op, arg) ==
    /\ pc[t] = "idle"
    /\ frame[t].self = d
    /\ pc' = pc
    /\ frame' = frame
    /\ outcome' = [outcome EXCEPT ![t] = Seen(t, op, arg, "raised", <<>>, <<>>)]
    /\ wire' = Fresh(wire)
    /\ sent' = Fresh(sent)

\* the call of thread t ends: its frame is gone, its caller has the outcome (and
\* no driver, if the call was a constructor that raised)
Ended(t, status, val) ==
    /\ pc' = [pc EXCEPT ![t] = "idle"]
    /\ outcome' = [outcome EXCEPT ![t] = Seen(t, frame[t].op, frame[t].arg, status, val,
                                              frame[t].wrote)]
    /\ frame' = [frame EXCEPT ![t] =
                    [IdleFrame EXCEPT !.self = IF frame[t].op = "__init__" /\ status = "raised"
                                               THEN 0 ELSE frame[t].self]]

Raise(t) == Ended(t, "raised", <<>>) /\ lock' = Unwound(t)

Return(t, val) == Ended(t, "returned", val)

(***************************************************************************)
(* _write and _ask, one step per statement that touches the lock, the      *)
(* transport or the clock                                                  *)
(***************************************************************************)
\* only the first assertion
Framed_first_only(cmd) == cmd # <<>> /\ cmd[1] = ":"

\* assert cmd[0] == ':' ; assert cmd[-1] == ';'   (cmd[0] of "" is an IndexError)
Framed(cmd) == cmd # <<>> /\ cmd[1] = ":" /\ cmd[Len(cmd)] = ";"

WriteAssert(t) ==
    /\ pc[t] = "write_assert"
    /\ IF Framed(frame[t].cmd)
       THEN /\ pc' = [pc EXCEPT ![t] = "write_lock"]
            /\ UNCHANGED <<outcome, lock, frame>>
       ELSE Raise(t)
    /\ UNCHANGED <<address, config, stored, identity, flags, is_open, rx, log>>

\* with self.lock:  and the test of self.always_send_address
WriteLock(t) ==
    LET d == frame[t].self IN
    /\ pc[t] = "write_lock"
    /\ LockAvailable(d, t)
    /\ lock' = Acquired(d, t)
    /\ pc' = [pc EXCEPT ![t] = IF always_send_address[d] THEN "write_adr" ELSE "write_cmd"]
    /\ UNCHANGED <<address, config, stored, identity, flags, is_open, rx, log, frame, outcome>>

\* adrcmd = ":ADR%02i;" % self.address ; self.ser.write(adrcmd.encode())
WriteAdr(t) ==
    LET d == frame[t].self
        p == ser[d]
    IN
    /\ pc[t] = "write_adr"
    /\ IF is_open[p]
       THEN /\ wire' = Logged(p, OnWire("adr", d, AdrCmd(address[d])))
            /\ sent' = [sent EXCEPT ![d] = <<Sent("adr", t, t)>>]
            /\ frame' = Wrote(t, "adr", AdrCmd(address[d]))
            /\ pc' = [pc EXCEPT ![t] = "write_sleep"]
            /\ UNCHANGED <<outcome, lock>>
       ELSE Raise(t) /\ UNCHANGED log
    /\ UNCHANGED <<address, config, stored, identity, flags, is_open, rx>>

\* the sleep made outside the lock: the lock is given up before the command
WriteSleep_unlocked(t) ==
    /\ pc[t] = "write_sleep"
    /\ pc' = [pc EXCEPT ![t] = "write_cmd"]
    /\ lock' = Released(frame[t].self)
    /\ UNCHANGED <<address, config, stored, identity, flags, is_open, rx, log, frame, outcome>>

\* time.sleep(0.050), inside the lock
WriteSleep(t) ==
    /\ pc[t] = "write_sleep"
    /\ pc' = [pc EXCEPT ![t] = "write_cmd"]
    /\ UNCHANGED <<address, config, stored, lock, identity, flags, is_open, rx, log, frame, outcome>>

\* self.ser.write(cmd.encode()); the unit answers a query with one line, or not at all
WriteCmd(t) ==
    LET d == frame[t].self
        p == ser[d]
        c == frame[t].cmd
    IN
    /\ pc[t] = "write_cmd"
    /\ IF is_open[p]
       THEN /\ wire' = Logged(p, OnWire("cmd", d, c))
            /\ sent' = [sent EXCEPT ![d] = <<Sent("cmd", t, t)>>]
            /\ frame' = Wrote(t, "cmd", c)
            /\ \E line \in Answers(p, c) :
                 rx' = IF line = <<>> THEN rx
                       ELSE [rx EXCEPT ![p] = Append(@, [line |-> line, to |-> t])]
            /\ pc' = [pc EXCEPT ![t] = "write_unlock"]
            /\ UNCHANGED <<outcome, lock>>
       ELSE Raise(t) /\ UNCHANGED <<log, rx>>
    /\ UNCHANGED <<address, config, stored, identity, flags, is_open>>

\* the end of the with block of _write
WriteUnlock(t) ==
    /\ pc[t] = "write_unlock"
    /\ lock' = Released(frame[t].self)
    /\ pc' = [pc EXCEPT ![t] = IF frame[t].via = "ask" THEN "ask_read" ELSE "finish"]
    /\ UNCHANGED <<address, config, stored, identity, flags, is_open, rx, log, frame, outcome>>

\* with self.lock:  of _ask
AskLock(t) ==
    LET d == frame[t].self IN
    /\ pc[t] = "ask_lock"
    /\ LockAvailable(d, t)
    /\ lock' = Acquired(d, t)
    /\ pc' = [pc EXCEPT ![t] = "write_assert"]
    /\ UNCHANGED <<address, config, stored, identity, flags, is_open, rx, log, frame, outcome>>

\* resp = self.ser.readline().decode(): the first line received, "" after the timeout
AskRead(t) ==
    LET d == frame[t].self
        p == ser[d]
        got == IF rx[p] = <<>> THEN [line |-> <<>>, to |-> t] ELSE Head(rx[p])
    IN
    /\ pc[t] = "ask_read"
    /\ IF is_open[p]
       THEN /\ frame' = [frame EXCEPT ![t].resp = got.line,
                                        ![t].wrote = Append(@, [io |-> "read", data |-> got.line])]
            /\ rx' = [rx EXCEPT ![p] = IF @ = <<>> THEN @ ELSE Tail(@)]
            /\ wire' = Logged(p, OnWire("read", d, got.line))
            /\ sent' = [sent EXCEPT ![d] = <<Sent("read", t, got.to)>>]
            /\ pc' = [pc EXCEPT ![t] = "ask_unlock"]
            /\ UNCHANGED <<outcome, lock>>
       ELSE Raise(t) /\ UNCHANGED <<rx, log>>
    /\ UNCHANGED <<address, config, stored, identity, flags, is_open>>

\* the end of the with block of _ask ; resp = resp.rstrip() ; return resp
AskUnlock(t) ==
    /\ pc[t] = "ask_unlock"
    /\ lock' = Released(frame[t].self)
    /\ frame' = [frame EXCEPT ![t].resp = RStrip(@)]
    /\ pc' = [pc EXCEPT ![t] = "finish"]
    /\ UNCHANGED <<address, config, stored, identity, flags, is_open, rx, log, outcome>>

(***************************************************************************)
(* The public methods.  A Call_ action is the method up to its call of     *)
(* _write or _ask (or up to the exception it raises before that); a        *)
(* Finish_ action is what the method does after _write or _ask returned.   *)
(***************************************************************************)
\* assert 0 < adr < 32
ValidAddress(adr) == 0 < adr /\ adr < 32

\* if not adr: adr = self.address      (None and 0 are both false)
DefaultedAddress(adr, current) == IF adr = <<>> \/ adr[1] = 0 THEN current ELSE adr[1]

\* set_address(adr): adr is <<>> for None, <<n>> for the integer n
Call_set_address(t, d, adr) ==
    LET a == DefaultedAddress(adr, address[d]) IN
    /\ IF ValidAddress(a)
       THEN Begin(t, d, "set_address", adr, <<a>>, AdrCmd(a), "write", "write_assert")
       ELSE Rejected(t, d, "set_address", adr)
    /\ UNCHANGED <<address, config, stored, lock, identity, flags, is_open, rx>>

\* time.sleep(0.050) ; self.address = adr ; return self.address
Finish_set_address(t) ==
    LET d == frame[t].self IN
    /\ pc[t] = "finish"
    /\ frame[t].op = "set_address"
    /\ address' = [address EXCEPT ![d] = frame[t].loc[1]]
    /\ Return(t, frame[t].loc)
    /\ UNCHANGED <<config, stored, lock, identity, flags, is_open, rx, log>>

\* _write(cmd) called with any text
Call__write(t, d, cmd) ==
    /\ Begin(t, d, "_write", cmd, <<>>, cmd, "write", "write_assert")
    /\ UNCHANGED <<address, config, stored, lock, identity, flags, is_open, rx>>

\* clear_comm_buffer(): self._write(":DCL;")
Call_clear_comm_buffer(t, d) ==
    /\ Begin(t, d, "clear_comm_buffer", <<>>, <<>>, CmdDCL, "write", "write_assert")
    /\ UNCHANGED <<address, config, stored, lock, identity, flags, is_open, rx>>

\* the methods that end when _write returns
WriteOnlyOps == {"_write", "clear_comm_buffer", "set_voltage", "set_current",
                 "set_over_voltage_protection", "set_under_voltage_protection",
                 "set_remote_mode", "set_output", "set_foldback_protection",
                 "set_auto_restart_mode"}

Finish_write(t) ==
    /\ pc[t] = "finish"
    /\ frame[t].op \in WriteOnlyOps
    /\ Return(t, <<>>)
    /\ UNCHANGED <<address, config, stored, lock, identity, flags, is_open, rx, log>>

\* close(): self.ser.close(), without the lock
Call_close(t, d) ==
    /\ pc[t] = "idle"
    /\ frame[t].self = d
    /\ is_open' = [is_open EXCEPT ![ser[d]] = FALSE]
    /\ outcome' = [outcome EXCEPT ![t] = Seen(t, "close", <<>>, "returned", <<>>, <<>>)]
    /\ UNCHANGED <<address, config, stored, lock, identity, flags, rx, log, pc, frame>>

\* get_model(): self.model = self._ask(":MDL?;")
Call_get_model(t, d) ==
    /\ Begin(t, d, "get_model", <<>>, <<>>, CmdMDLq, "ask", "ask_lock")
    /\ UNCHANGED <<address, config, stored, lock, identity, flags, is_open, rx>>

Finish_get_model(t) ==
    /\ pc[t] = "finish"
    /\ frame[t].op = "get_model"
    /\ model' = [model EXCEPT ![frame[t].self] = <<frame[t].resp>>]
    /\ Return(t, <<frame[t].resp>>)
    /\ UNCHANGED <<address, config, stored, lock, max_voltage, max_current, software_revision,
                   flags, is_open, rx, log>>

\* ver, maxV, maxA, revision = out.replace('-', ' ').split()
\* self.max_voltage = int(maxV) ; self.max_current = float(maxA) ; self.software_revision = revision
\* `done` counts the assignments made before the method returns (3) or raises
RevParse(out) ==
    LET toks == Split(Replace(out, "-", " "))
        v    == ParseInt(toks[2])
        a    == ParseFloat(toks[3])
    IN  IF Len(toks) # 4 THEN [done |-> 0, maxV |-> 0, maxA |-> 0, revision |-> <<>>]
        ELSE IF ~v.ok THEN [done |-> 0, maxV |-> 0, maxA |-> 0, revision |-> <<>>]
        ELSE IF ~a.ok THEN [done |-> 1, maxV |-> v.val, maxA |-> 0, revision |-> <<>>]
        ELSE [done |-> 3, maxV |-> v.val, maxA |-> a.val, revision |-> toks[4]]

Call_get_software_revision(t, d) ==
    /\ Begin(t, d, "get_software_revision", <<>>, <<>>, CmdREVq, "ask", "ask_lock")
    /\ UNCHANGED <<address, config, stored, lock, identity, flags, is_open, rx>>

Finish_get_software_revision(t) ==
    LET d == frame[t].self
        r == RevParse(frame[t].resp)
    IN
    /\ pc[t] = "finish"
    /\ frame[t].op = "get_software_revision"
    /\ max_voltage' = IF r.done >= 1 THEN [max_voltage EXCEPT ![d] = <<r.maxV>>]
                      ELSE max_voltage
    /\ max_current' = IF r.done = 3 THEN [max_current EXCEPT ![d] = <<r.maxA>>]
                      ELSE max_current
    /\ software_revision' = IF r.done = 3
                            THEN [software_revision EXCEPT ![d] = <<r.revision>>]
                            ELSE software_revision
    /\ IF r.done = 3 THEN Return(t, <<r.revision>>) /\ UNCHANGED lock ELSE Raise(t)
    /\ UNCHANGED <<address, config, stored, model, flags, is_open, rx, log>>

\* the attributes that exist only once a getter has stored them
NoReadings ==
    [voltage_setp |-> <<>>, voltage_actual |-> <<>>, current_setp |-> <<>>,
     current_actual |-> <<>>, over_voltage |-> <<>>, under_voltage |-> <<>>,
     remote_mode |-> <<>>]

NoStatus ==
    [operational_status_register |-> <<>>, alarm_status_register |-> <<>>,
     programming_status_register |-> <<>>,
     cc_cv |-> <<>>, foldback_srq |-> <<>>, over_voltage_srq |-> <<>>,
     over_temp_srq |-> <<>>, alarm_active |-> <<>>,
     alarm_ovp |-> <<>>, alarm_otp |-> <<>>, alarm_ac_fail |-> <<>>,
     alarm_foldback |-> <<>>, alarm_prog |-> <<>>,
     prog_err_wrong_command |-> <<>>, prog_err_buffer_overflow |-> <<>>,
     prog_err_wrong_voltage |-> <<>>, prog_err_wrong_current |-> <<>>]

(***************************************************************************)
(* The constructor.  A thread that holds no driver (frame[t].self = 0)     *)
(* makes driver d; it holds d when __init__ has returned, and nothing when *)
(* __init__ has raised.                                                    *)
(***************************************************************************)
\* LambdaZup(port, address, always_send_address): the attributes, the lock and the
\* transport (the Serial object handed over as it is, or a new one opened on the
\* named port), then self.set_address() up to its _write
Call___init__(t, d, port, adr, asa) ==
    LET p == port.p
        arg == <<port, adr, asa>>
    IN
    /\ pc[t] = "idle"
    /\ frame[t].self = 0
    /\ address' = [address EXCEPT ![d] = adr]
    /\ always_send_address' = [always_send_address EXCEPT ![d] = asa]
    /\ ser' = [ser EXCEPT ![d] = p]
    /\ lock' = [lock EXCEPT ![d] = Free]
    /\ is_open' = IF port.has_read THEN is_open ELSE [is_open EXCEPT ![p] = TRUE]
    /\ rx' = IF port.has_read THEN rx ELSE [rx EXCEPT ![p] = <<>>]
    /\ max_voltage' = [max_voltage EXCEPT ![d] = <<>>]
    /\ max_current' = [max_current EXCEPT ![d] = <<>>]
    /\ software_revision' = [software_revision EXCEPT ![d] = <<>>]
    /\ model' = [model EXCEPT ![d] = <<>>]
    /\ output' = [output EXCEPT ![d] = <<>>]
    /\ foldback_armed' = [foldback_armed EXCEPT ![d] = <<>>]
    /\ auto_restart_mode' = [auto_restart_mode EXCEPT ![d] = <<>>]
    /\ readings' = [readings EXCEPT ![d] = NoReadings]
    /\ complete_status' = [complete_status EXCEPT ![d] = NoStatus]
    /\ IF ValidAddress(DefaultedAddress(<<>>, adr))
       THEN /\ pc' = [pc EXCEPT ![t] = "write_assert"]
            /\ frame' = [frame EXCEPT ![t] =
                            [self |-> d, op |-> "__init__", arg |-> arg, loc |-> <<adr>>,
                             cmd |-> AdrCmd(adr), via |-> "write", resp |-> <<>>,
                             wrote |-> <<>>]]
            /\ outcome' = [outcome EXCEPT ![t] = NoCall]
       ELSE /\ pc' = pc
            /\ frame' = frame
            /\ outcome' = [outcome EXCEPT ![t] = Seen(t, "__init__", arg, "raised", <<>>, <<>>)]
    /\ wire' = Fresh(wire)
    /\ sent' = Fresh(sent)
    /\ UNCHANGED unit

\* the rest of set_address() (self.address = adr), then self.get_software_revision()
\* up to its _ask
Next___init__(t) ==
    LET d == frame[t].self IN
    /\ pc[t] = "finish"
    /\ frame[t].op = "__init__"
    /\ frame[t].via = "write"
    /\ address' = [address EXCEPT ![d] = frame[t].loc[1]]
    /\ frame' = [frame EXCEPT ![t].cmd = CmdREVq, ![t].via = "ask"]
    /\ pc' = [pc EXCEPT ![t] = "ask_lock"]
    /\ UNCHANGED <<config, stored, lock, identity, flags, is_open, rx, log, outcome>>

\* a constructor that returns whatever the unit answered
Built_always(r) == TRUE

\* get_software_revision() has returned: no statement of it raised
Built(r) == r.done = 3

\* the rest of get_software_revision(), the end of __init__
Finish___init__(t) ==
    LET d == frame[t].self
        r == RevParse(frame[t].resp)
    IN
    /\ pc[t] = "finish"
    /\ frame[t].op = "__init__"
    /\ frame[t].via = "ask"
    /\ max_voltage' = IF r.done >= 1 THEN [max_voltage EXCEPT ![d] = <<r.maxV>>]
                      ELSE max_voltage
    /\ max_current' = IF r.done = 3 THEN [max_current EXCEPT ![d] = <<r.maxA>>]
                      ELSE max_current
    /\ software_revision' = IF r.done = 3
                            THEN [software_revision EXCEPT ![d] = <<r.revision>>]
                            ELSE software_revision
    /\ IF Built(r) THEN Return(t, <<>>) /\ UNCHANGED lock ELSE Raise(t)
    /\ UNCHANGED <<address, config, stored, model, flags, is_open, rx, log>>

\* LambdaZupHW.disconnect(): self.dev.close() ; del self.dev
Call_disconnect(t, d) ==
    /\ pc[t] = "idle"
    /\ frame[t].self = d
    /\ is_open' = [is_open EXCEPT ![ser[d]] = FALSE]
    /\ frame' = [frame EXCEPT ![t].self = 0]
    /\ outcome' = [outcome EXCEPT ![t] = Seen(t, "disconnect", <<>>, "returned", <<>>, <<>>)]
    /\ UNCHANGED <<address, config, stored, lock, identity, flags, rx, log, pc>>

\* assert 0 <= volt <= self.max_voltage  /  assert 0 <= amp <= self.max_current
\* only the upper bound
InRange_upper_only(x, max) == Num(x) <= max

\* assert 0 <= volt <= self.max_voltage  /  assert 0 <= amp <= self.max_current
InRange(x, max) == 0 <= Num(x) /\ Num(x) <= max

\* a table without the entry gives its first format instead of a KeyError
HasKey_guessing(table, key) == TRUE

\* table[key] raises KeyError unless key is an entry
HasKey(table, key) == key \in DOMAIN table

\* table[key] for a key of the table (no other key gets as far as the format)
Lookup(table, key) ==
    IF key \in DOMAIN table THEN table[key]
    ELSE table[CHOOSE k \in DOMAIN table : TRUE]

\* set_voltage(volt)
Call_set_voltage(t, d, volt) ==
    LET maxV == max_voltage[d][1]
        f    == Lookup(v_format_strs, maxV)
    IN
    /\ pc[t] = "idle"
    /\ frame[t].self = d
    /\ IF InRange(volt, maxV * Unit) /\ HasKey(v_format_strs, maxV)
       THEN Begin(t, d, "set_voltage", <<volt>>, <<>>, CmdVOL(FormatF(f.w, f.d, volt)),
                  "write", "write_assert")
       ELSE Rejected(t, d, "set_voltage", <<volt>>)
    /\ UNCHANGED <<address, config, stored, lock, identity, flags, is_open, rx>>

\* set_current(amp)
Call_set_current(t, d, amp) ==
    LET key == <<max_voltage[d][1], max_current[d][1]>>
        f   == Lookup(i_format_strs, key)
    IN
    /\ pc[t] = "idle"
    /\ frame[t].self = d
    /\ IF InRange(amp, max_current[d][1]) /\ HasKey(i_format_strs, key)
       THEN Begin(t, d, "set_current", <<amp>>, <<>>, CmdCUR(FormatF(f.w, f.d, amp)),
                  "write", "write_assert")
       ELSE Rejected(t, d, "set_current", <<amp>>)
    /\ UNCHANGED <<address, config, stored, lock, identity, flags, is_open, rx>>

\* set_over_voltage_protection(volt): self._write(":OVP%1.2f;" % volt)
Call_set_over_voltage_protection(t, d, volt) ==
    /\ pc[t] = "idle"
    /\ frame[t].self = d
    /\ IF InRange(volt, max_voltage[d][1] * Unit)
       THEN Begin(t, d, "set_over_voltage_protection", <<volt>>, <<>>,
                  CmdOVP(FormatF(1, 2, volt)), "write", "write_assert")
       ELSE Rejected(t, d, "set_over_voltage_protection", <<volt>>)
    /\ UNCHANGED <<address, config, stored, lock, identity, flags, is_open, rx>>

\* set_under_voltage_protection(volt): self._write(":UVP%1.2f;" % volt)
Call_set_under_voltage_protection(t, d, volt) ==
    /\ pc[t] = "idle"
    /\ frame[t].self = d
    /\ IF InRange(volt, max_voltage[d][1] * Unit)
       THEN Begin(t, d, "set_under_voltage_protection", <<volt>>, <<>>,
                  CmdUVP(FormatF(1, 2, volt)), "write", "write_assert")
       ELSE Rejected(t, d, "set_under_voltage_protection", <<volt>>)
    /\ UNCHANGED <<address, config, stored, lock, identity, flags, is_open, rx>>

(***************************************************************************)
(* The setters of a mode.  A mode handed to them is a Python value: a      *)
(* string, an integer, a boolean or None.                                  *)
(***************************************************************************)
PyStr(s) == [type |-> "str", s |-> s, n |-> 0]
PyInt(n) == [type |-> "int", s |-> "", n |-> n]
PyBool(b) == [type |-> "bool", s |-> "", n |-> IF b THEN 1 ELSE 0]
PyNone == [type |-> "NoneType", s |-> "", n |-> 0]

IsNumber(x) == x.type \in {"int", "bool"}

\* a == b   (True == 1 and False == 0)
PyEq(a, b) == IF IsNumber(a) /\ IsNumber(b) THEN a.n = b.n
              ELSE a.type = b.type /\ a.s = b.s

\* x in list
PyIn(x, list) == \E i \in 1..Len(list) : PyEq(x, list[i])

\* "%i" % x  for a number x
FormatI(x) == IF x.n < 0 THEN <<"-">> \o Digits(0 - x.n) ELSE Digits(x.n)

\* if mode == "local": mode = 0 / elif mode == "non-latched": mode = 1 /
\* elif mode == "latched": mode = 2
ModeNumber(mode) ==
    IF PyEq(mode, PyStr("local")) THEN PyInt(0)
    ELSE IF PyEq(mode, PyStr("non-latched")) THEN PyInt(1)
    ELSE IF PyEq(mode, PyStr("latched")) THEN PyInt(2)
    ELSE mode

\* no assertion
IsRemoteMode_unchecked(mode) == TRUE

\* assert mode in [0,1,2]
IsRemoteMode(mode) == PyIn(mode, <<PyInt(0), PyInt(1), PyInt(2)>>)

\* set_remote_mode(mode): self._write(":RMT%i;" % mode)   (%i of a value that is
\* no number is a TypeError)
Call_set_remote_mode(t, d, mode) ==
    LET m == ModeNumber(mode) IN
    /\ IF IsRemoteMode(m) /\ IsNumber(m)
       THEN Begin(t, d, "set_remote_mode", <<mode>>, <<>>, CmdRMT(FormatI(m)),
                  "write", "write_assert")
       ELSE Rejected(t, d, "set_remote_mode", <<mode>>)
    /\ UNCHANGED <<address, config, stored, lock, identity, flags, is_open, rx>>

\* set_output(outp): if outp: self._write(":OUT1;") else: self._write(":OUT0;")
Call_set_output(t, d, outp) ==
    /\ Begin(t, d, "set_output", <<outp>>, <<>>,
             CmdOUT(IF outp THEN <<"1">> ELSE <<"0">>), "write", "write_assert")
    /\ UNCHANGED <<address, config, stored, lock, identity, flags, is_open, rx>>

\* a call that returns None without reaching _write
Passed(t, d, op, arg) ==
    /\ pc[t] = "idle"
    /\ frame[t].self = d
    /\ pc' = pc
    /\ frame' = frame
    /\ outcome' = [outcome EXCEPT ![t] = Seen(t, op, arg, "returned", <<>>, <<>>)]
    /\ wire' = Fresh(wire)
    /\ sent' = Fresh(sent)

\* set_foldback_protection(fld): if fld in [True, 1, "arm"]: self._write(":FLD1;")
\* elif fld in [False, 0, "release"]: self._write(":FLD0;")
\* elif fld in [2, "cancel"]: self._write(":FLD2;")        (there is no else)
Call_set_foldback_protection(t, d, fld) ==
    /\ IF PyIn(fld, <<PyBool(TRUE), PyInt(1), PyStr("arm")>>)
       THEN Begin(t, d, "set_foldback_protection", <<fld>>, <<>>, CmdFLD(<<"1">>),
                  "write", "write_assert")
       ELSE IF PyIn(fld, <<PyBool(FALSE), PyInt(0), PyStr("release")>>)
       THEN Begin(t, d, "set_foldback_protection", <<fld>>, <<>>, CmdFLD(<<"0">>),
                  "write", "write_assert")
       ELSE IF PyIn(fld, <<PyInt(2), PyStr("cancel")>>)
       THEN Begin(t, d, "set_foldback_protection", <<fld>>, <<>>, CmdFLD(<<"2">>),
                  "write", "write_assert")
       ELSE Passed(t, d, "set_foldback_protection", <<fld>>)
    /\ UNCHANGED <<address, config, stored, lock, identity, flags, is_open, rx>>

\* set_auto_restart_mode(ast): if ast: self._write(":AST1;") else: self._write(":AST0;")
Call_set_auto_restart_mode(t, d, ast) ==
    /\ Begin(t, d, "set_auto_restart_mode", <<ast>>, <<>>,
             CmdAST(IF ast THEN <<"1">> ELSE <<"0">>), "write", "write_assert")
    /\ UNCHANGED <<address, config, stored, lock, identity, flags, is_open, rx>>

\* an unexpected suffix taken for "off"
BoolReply_lenient(out, tag) ==
    IF Prefix(out, 2) # tag THEN [ok |-> FALSE, val |-> FALSE]
    ELSE IF out = tag \o <<"1">> THEN [ok |-> TRUE, val |-> TRUE]
    ELSE [ok |-> TRUE, val |-> FALSE]

\* assert out[:2] == tag ; if out == tag + "1": True ; elif out == tag + "0": False ;
\* else: raise ValueError
BoolReply(out, tag) ==
    IF Prefix(out, 2) # tag THEN [ok |-> FALSE, val |-> FALSE]
    ELSE IF out = tag \o <<"1">> THEN [ok |-> TRUE, val |-> TRUE]
    ELSE IF out = tag \o <<"0">> THEN [ok |-> TRUE, val |-> FALSE]
    ELSE [ok |-> FALSE, val |-> FALSE]

\* get_output(): out = self._ask(":OUT?;")
Call_get_output(t, d) ==
    /\ Begin(t, d, "get_output", <<>>, <<>>, CmdOUTq, "ask", "ask_lock")
    /\ UNCHANGED <<address, config, stored, lock, identity, flags, is_open, rx>>

\* self.output = True / False ; return self.output
Finish_get_output(t) ==
    LET r == BoolReply(frame[t].resp, <<"O", "T">>) IN
    /\ pc[t] = "finish"
    /\ frame[t].op = "get_output"
    /\ IF r.ok
       THEN /\ output' = [output EXCEPT ![frame[t].self] = <<r.val>>]
            /\ Return(t, <<r.val>>)
            /\ UNCHANGED lock
       ELSE Raise(t) /\ UNCHANGED output
    /\ UNCHANGED <<address, config, stored, identity, foldback_armed, auto_restart_mode, is_open,
                   rx, log>>

\* get_foldback_protection(): out = self._ask(":FLD?;")
Call_get_foldback_protection(t, d) ==
    /\ Begin(t, d, "get_foldback_protection", <<>>, <<>>, CmdFLDq, "ask", "ask_lock")
    /\ UNCHANGED <<address, config, stored, lock, identity, flags, is_open, rx>>

\* self.foldback_armed = True / False ; return self.foldback_armed
Finish_get_foldback_protection(t) ==
    LET r == BoolReply(frame[t].resp, <<"F", "D">>) IN
    /\ pc[t] = "finish"
    /\ frame[t].op = "get_foldback_protection"
    /\ IF r.ok
       THEN /\ foldback_armed' = [foldback_armed EXCEPT ![frame[t].self] = <<r.val>>]
            /\ Return(t, <<r.val>>)
            /\ UNCHANGED lock
       ELSE Raise(t) /\ UNCHANGED foldback_armed
    /\ UNCHANGED <<address, config, stored, identity, output, auto_restart_mode, is_open, rx, log>>

\* get_auto_restart_mode(): out = self._ask(":AST?;")
Call_get_auto_restart_mode(t, d) ==
    /\ Begin(t, d, "get_auto_restart_mode", <<>>, <<>>, CmdASTq, "ask", "ask_lock")
    /\ UNCHANGED <<address, config, stored, lock, identity, flags, is_open, rx>>

\* self.auto_restart_mode = True / False ; return self.auto_restart_mode
Finish_get_auto_restart_mode(t) ==
    LET r == BoolReply(frame[t].resp, <<"A", "S">>) IN
    /\ pc[t] = "finish"
    /\ frame[t].op = "get_auto_restart_mode"
    /\ IF r.ok
       THEN /\ auto_restart_mode' = [auto_restart_mode EXCEPT ![frame[t].self] = <<r.val>>]
            /\ Return(t, <<r.val>>)
            /\ UNCHANGED lock
       ELSE Raise(t) /\ UNCHANGED auto_restart_mode
    /\ UNCHANGED <<address, config, stored, identity, output, foldback_armed, is_open, rx, log>>

\* the tag is not looked at
ScalarReply_untagged(out, tag) == ParseFloat(SubSeq(out, 3, Len(out)))

\* assert out[:2] == tag ; float(out[2:])
ScalarReply(out, tag) ==
    IF Prefix(out, 2) # tag THEN [ok |-> FALSE, val |-> 0]
    ELSE ParseFloat(SubSeq(out, 3, Len(out)))

\* get_voltage_setp(), get_voltage_actual(), get_current_setp(), get_current_actual(),
\* get_over_voltage_protection(), get_under_voltage_protection(): out = self._ask(cmd)
Call_get_scalar(t, d, g) ==
    /\ Begin(t, d, g, <<>>, <<>>, ScalarGetters[g].cmd, "ask", "ask_lock")
    /\ UNCHANGED <<address, config, stored, lock, identity, flags, is_open, rx>>

\* self.<attr> = float(out[2:]) ; return self.<attr>
Finish_get_scalar(t) ==
    LET g == ScalarGetters[frame[t].op]
        r == ScalarReply(frame[t].resp, g.tag)
    IN
    /\ pc[t] = "finish"
    /\ frame[t].op \in DOMAIN ScalarGetters
    /\ IF r.ok
       THEN /\ readings' = [readings EXCEPT ![frame[t].self][g.attr] = <<r.val>>]
            /\ Return(t, <<r.val>>)
            /\ UNCHANGED lock
       ELSE Raise(t) /\ UNCHANGED readings
    /\ UNCHANGED <<address, config, complete_status, identity, flags, is_open, rx, log>>

\* get_remote_mode(): self.remote_mode = self._ask(":RMT?;")
Call_get_remote_mode(t, d) ==
    /\ Begin(t, d, "get_remote_mode", <<>>, <<>>, CmdRMTq, "ask", "ask_lock")
    /\ UNCHANGED <<address, config, stored, lock, identity, flags, is_open, rx>>

\* return self.remote_mode
Finish_get_remote_mode(t) ==
    /\ pc[t] = "finish"
    /\ frame[t].op = "get_remote_mode"
    /\ readings' = [readings EXCEPT ![frame[t].self].remote_mode = <<frame[t].resp>>]
    /\ Return(t, <<frame[t].resp>>)
    /\ UNCHANGED <<address, config, complete_status, lock, identity, flags, is_open, rx, log>>

(***************************************************************************)
(* get_complete_status: the regular expression                             *)
(*   AV f SV f AA f SA f OS(\d+)AL(\d+)PS(\d+),                            *)
(*   f = ([+-]?\d*\.\d+)(?![-+0-9\.])                                      *)
(* A match is found by going through the text once: after the sign, each   *)
(* run of digits is taken whole, for a shorter run is followed by a digit, *)
(* which neither the look-ahead nor the next literal accepts.              *)
(***************************************************************************)
RECURSIVE DigitsEnd(_, _)
\* the first position from i on that holds no digit
DigitsEnd(s, i) == IF i <= Len(s) /\ IsDigit(s[i]) THEN DigitsEnd(s, i + 1) ELSE i

\* the text has `lit` at position i
HasAt(s, i, lit) == i + Len(lit) - 1 <= Len(s) /\ SubSeq(s, i, i + Len(lit) - 1) = lit

\* f without its sign: (\d*\.\d+)(?![-+0-9\.])
MatchFloat_unsigned(s, i) ==
    LET b == DigitsEnd(s, i)
        c == DigitsEnd(s, b + 1)
    IN  IF b <= Len(s) /\ s[b] = "." /\ c > b + 1
           /\ (c > Len(s) \/ s[c] \notin {"-", "+", "."})
        THEN c ELSE 0

\* f at position i: the position after it, 0 if f does not match there
MatchFloat(s, i) ==
    LET a == IF i <= Len(s) /\ s[i] \in {"+", "-"} THEN i + 1 ELSE i
        b == DigitsEnd(s, a)
        c == DigitsEnd(s, b + 1)
    IN  IF b <= Len(s) /\ s[b] = "." /\ c > b + 1
           /\ (c > Len(s) \/ s[c] \notin {"-", "+", "."})
        THEN c ELSE 0

\* (\d+) at position i: the position after it, 0 if there is no digit
MatchDigits(s, i) == IF DigitsEnd(s, i) > i THEN DigitsEnd(s, i) ELSE 0

NoMatch ==
    [ok |-> FALSE, av |-> <<>>, sv |-> <<>>, aa |-> <<>>, sa |-> <<>>,
     os |-> <<>>, al |-> <<>>, ps |-> <<>>]

\* the whole expression at position k: whether it matches, and its seven groups
MatchStatus(s, k) ==
    LET e1 == MatchFloat(s, k + 2)
        e2 == MatchFloat(s, e1 + 2)
        e3 == MatchFloat(s, e2 + 2)
        e4 == MatchFloat(s, e3 + 2)
        e5 == MatchDigits(s, e4 + 2)
        e6 == MatchDigits(s, e5 + 2)
        e7 == MatchDigits(s, e6 + 2)
    IN  IF /\ HasAt(s, k, <<"A", "V">>) /\ e1 # 0
           /\ HasAt(s, e1, <<"S", "V">>) /\ e2 # 0
           /\ HasAt(s, e2, <<"A", "A">>) /\ e3 # 0
           /\ HasAt(s, e3, <<"S", "A">>) /\ e4 # 0
           /\ HasAt(s, e4, <<"O", "S">>) /\ e5 # 0
           /\ HasAt(s, e5, <<"A", "L">>) /\ e6 # 0
           /\ HasAt(s, e6, <<"P", "S">>) /\ e7 # 0
        THEN [ok |-> TRUE,
              av |-> SubSeq(s, k + 2, e1 - 1), sv |-> SubSeq(s, e1 + 2, e2 - 1),
              aa |-> SubSeq(s, e2 + 2, e3 - 1), sa |-> SubSeq(s, e3 + 2, e4 - 1),
              os |-> SubSeq(s, e4 + 2, e5 - 1), al |-> SubSeq(s, e5 + 2, e6 - 1),
              ps |-> SubSeq(s, e6 + 2, e7 - 1)]
        ELSE NoMatch

\* self.complete_status_re_prog.findall(out)[0]: the leftmost match; IndexError if none
FindStatus(out) ==
    LET ks == {k \in 1..Len(out) : MatchStatus(out, k).ok}
    IN  IF ks = {} THEN NoMatch
        ELSE MatchStatus(out, CHOOSE k \in ks : \A j \in ks : k <= j)

\* bool(reg[i]): true of any character
Bit_of_text(reg, i) == reg[i + 1] # ""

\* bool(int(reg[i])), i counted from 0
Bit(reg, i) == reg[i + 1] # "0"

\* get_complete_status(): out = self._ask(":STT?;")
Call_get_complete_status(t, d) ==
    /\ Begin(t, d, "get_complete_status", <<>>, <<>>, CmdSTTq, "ask", "ask_lock")
    /\ UNCHANGED <<address, config, stored, lock, identity, flags, is_open, rx>>

\* the attribute after the statement  self.<flag> = bool(int(reg[i])) : the statement
\* is reached unless an earlier one raised, and raises IndexError itself when the
\* register has no character i
StoredBit(old, reg, i, reached) == IF reached /\ Len(reg) > i THEN <<Bit(reg, i)>> ELSE old

\* the statements of get_complete_status after self._ask, up to the first that raises
Finish_get_complete_status(t) ==
    \E g \in {FindStatus(frame[t].resp)} :
    LET d   == frame[t].self
        os8 == Len(g.os) >= 8
        al5 == os8 /\ Len(g.al) >= 5
        ps5 == al5 /\ Len(g.ps) >= 5
        va  == ParseFloat(g.av).val
        vs  == ParseFloat(g.sv).val
        ca  == ParseFloat(g.aa).val
        cs  == ParseFloat(g.sa).val
    IN
    /\ pc[t] = "finish"
    /\ frame[t].op = "get_complete_status"
    /\ IF ~g.ok
       THEN Raise(t) /\ UNCHANGED <<stored, flags>>
       ELSE /\ readings' = [readings EXCEPT ![d].voltage_actual = <<va>>,
                                            ![d].voltage_setp = <<vs>>,
                                            ![d].current_actual = <<ca>>,
                                            ![d].current_setp = <<cs>>]
            /\ complete_status' = [complete_status EXCEPT ![d] =
                 [operational_status_register |-> <<g.os>>,
                  alarm_status_register |-> <<g.al>>,
                  programming_status_register |-> <<g.ps>>,
                  cc_cv |-> StoredBit(@.cc_cv, g.os, 0, TRUE),
                  foldback_srq |-> StoredBit(@.foldback_srq, g.os, 4, TRUE),
                  over_voltage_srq |-> StoredBit(@.over_voltage_srq, g.os, 5, TRUE),
                  over_temp_srq |-> StoredBit(@.over_temp_srq, g.os, 6, TRUE),
                  alarm_active |-> StoredBit(@.alarm_active, g.os, 7, TRUE),
                  alarm_ovp |-> StoredBit(@.alarm_ovp, g.al, 0, os8),
                  alarm_otp |-> StoredBit(@.alarm_otp, g.al, 1, os8),
                  alarm_ac_fail |-> StoredBit(@.alarm_ac_fail, g.al, 2, os8),
                  alarm_foldback |-> StoredBit(@.alarm_foldback, g.al, 3, os8),
                  alarm_prog |-> StoredBit(@.alarm_prog, g.al, 4, os8),
                  prog_err_wrong_command |->
                      StoredBit(@.prog_err_wrong_command, g.ps, 1, al5),
                  prog_err_buffer_overflow |->
                      StoredBit(@.prog_err_buffer_overflow, g.ps, 2, al5),
                  prog_err_wrong_voltage |->
                      StoredBit(@.prog_err_wrong_voltage, g.ps, 3, al5),
                  prog_err_wrong_current |->
                      StoredBit(@.prog_err_wrong_current, g.ps, 4, al5)]]
            /\ foldback_armed' = [foldback_armed EXCEPT ![d] = StoredBit(@, g.os, 1, TRUE)]
            /\ auto_restart_mode' =
                  [auto_restart_mode EXCEPT ![d] = StoredBit(@, g.os, 2, TRUE)]
            /\ output' = [output EXCEPT ![d] = StoredBit(@, g.os, 3, TRUE)]
            /\ IF ps5
               THEN Return(t, <<<<va, vs, ca, cs, g.os, g.al, g.ps>>>>) /\ UNCHANGED lock
               ELSE Raise(t)
    /\ UNCHANGED <<address, config, identity, is_open, rx, log>>

(***************************************************************************)
(* Initial states: the drivers as their constructors leave them.           *)
(* __init__ stores its arguments, makes the lock, opens or adopts the      *)
(* transport, selects the address (which must be 1..31 for set_address not *)
(* to raise) and reads the rating out of the unit's revision line.         *)
(***************************************************************************)
ConstructedOn(units, adrs, asas, sers, lines, devs) ==
    /\ unit = units
    /\ readings = [d \in Drivers |-> NoReadings]
    /\ complete_status = [d \in Drivers |-> NoStatus]
    /\ address = adrs
    /\ always_send_address = asas
    /\ ser = sers
    /\ lock = [d \in Drivers |-> Free]
    /\ max_voltage = [d \in Drivers |-> <<RevParse(RStrip(lines[d])).maxV>>]
    /\ max_current = [d \in Drivers |-> <<RevParse(RStrip(lines[d])).maxA>>]
    /\ software_revision = [d \in Drivers |-> <<RevParse(RStrip(lines[d])).revision>>]
    /\ model = [d \in Drivers |-> <<>>]
    /\ output = [d \in Drivers |-> <<>>]
    /\ foldback_armed = [d \in Drivers |-> <<>>]
    /\ auto_restart_mode = [d \in Drivers |-> <<>>]
    /\ is_open = [p \in Ports |-> TRUE]
    /\ rx = [p \in Ports |-> <<>>]
    /\ wire = [p \in Ports |-> <<>>]
    /\ sent = [d \in Drivers |-> <<>>]
    /\ pc = [t \in Threads |-> "idle"]
    /\ frame = [t \in Threads |-> [IdleFrame EXCEPT !.self = devs[t]]]
    /\ outcome = [t \in Threads |-> NoCall]

\* no driver is constructed yet and no transport is open
NotConstructed(units) ==
    /\ unit = units
    /\ readings = [d \in Drivers |-> NoReadings]
    /\ complete_status = [d \in Drivers |-> NoStatus]
    /\ address = [d \in Drivers |-> 0]
    /\ always_send_address = [d \in Drivers |-> FALSE]
    /\ ser = [d \in Drivers |-> 0]
    /\ lock = [d \in Drivers |-> Free]
    /\ max_voltage = [d \in Drivers |-> <<>>]
    /\ max_current = [d \in Drivers |-> <<>>]
    /\ software_revision = [d \in Drivers |-> <<>>]
    /\ model = [d \in Drivers |-> <<>>]
    /\ output = [d \in Drivers |-> <<>>]
    /\ foldback_armed = [d \in Drivers |-> <<>>]
    /\ auto_restart_mode = [d \in Drivers |-> <<>>]
    /\ is_open = [p \in Ports |-> FALSE]
    /\ rx = [p \in Ports |-> <<>>]
    /\ wire = [p \in Ports |-> <<>>]
    /\ sent = [d \in Drivers |-> <<>>]
    /\ pc = [t \in Threads |-> "idle"]
    /\ frame = [t \in Threads |-> [IdleFrame EXCEPT !.self = 0]]
    /\ outcome = [t \in Threads |-> NoCall]

\* drivers constructed on units that may answer anything
Constructed(adrs, asas, sers, lines, devs) ==
    ConstructedOn([p \in Ports |-> "any"], adrs, asas, sers, lines, devs)

Zup6_33 == RevLine(<<"6">>, <<"3", "3">>)

\* the driver of the single-threaded specifications
SeqDrivers == {1}

(***************************************************************************)
(* Spec: one thread uses one driver: addressing, raw writes, a query,      *)
(* closing the port.                                                       *)
(***************************************************************************)
AddressArgs == {<<>>} \cup {<<a>> : a \in {0 - 1, 0, 1, 9, 10, 31, 32}}

RawCommands ==
    { CmdDCL, <<>>, <<":">>, <<";">>, <<":", ";">>, <<"D", "C", "L", ";">>,
      <<":", "D", "C", "L">>, <<";", "D", "C", "L", ":">> }

Init ==
    \E a \in {1, 31}, asa \in BOOLEAN :
        Constructed([d \in Drivers |-> IF d = 1 THEN a ELSE 2], [d \in Drivers |-> asa],
                    [d \in Drivers |-> d], [d \in Drivers |-> Zup6_33],
                    [t \in Threads |-> 1])

WriteSteps(t) ==
    WriteAssert(t) \/ WriteLock(t) \/ WriteAdr(t) \/ WriteSleep(t) \/ WriteCmd(t)
    \/ WriteUnlock(t)

AskSteps(t) == AskLock(t) \/ AskRead(t) \/ AskUnlock(t)

Next ==
    \E t \in SeqThreads, d \in SeqDrivers :
        \/ WriteSteps(t)
        \/ AskSteps(t)
        \/ \E adr \in AddressArgs : Call_set_address(t, d, adr)
        \/ Finish_set_address(t)
        \/ \E cmd \in RawCommands : Call__write(t, d, cmd)
        \/ Call_clear_comm_buffer(t, d)
        \/ Finish_write(t)
        \/ Call_get_model(t, d)
        \/ Finish_get_model(t)
        \/ Call_close(t, d)

Spec == Init /\ [][Next]_vars

(***************************************************************************)
(* SpecBus: two threads call one driver concurrently.                      *)
(***************************************************************************)
BusAddressArgs == {<<>>, <<3>>}

InitBus ==
    \E asa \in BOOLEAN :
        Constructed([d \in Drivers |-> d], [d \in Drivers |-> asa],
                    [d \in Drivers |-> d], [d \in Drivers |-> Zup6_33],
                    [t \in Threads |-> 1])

NextBus ==
    \E t \in Workers, d \in Drivers :
        \/ WriteSteps(t)
        \/ AskSteps(t)
        \/ \E adr \in BusAddressArgs : Call_set_address(t, d, adr)
        \/ Finish_set_address(t)
        \/ Call_clear_comm_buffer(t, d)
        \/ Finish_write(t)
        \/ Call_get_model(t, d)
        \/ Finish_get_model(t)
        \/ Call_close(t, d)

SpecBus == InitBus /\ [][NextBus]_vars

\* the statements of a thread that is running: none of them waits for another thread
\* (time.sleep ends, readline returns at the latest after its timeout)
RunSteps(t) ==
    \/ WriteAssert(t) \/ WriteAdr(t) \/ WriteSleep(t) \/ WriteCmd(t) \/ WriteUnlock(t)
    \/ AskRead(t) \/ AskUnlock(t)
    \/ Finish_set_address(t) \/ Finish_write(t) \/ Finish_get_model(t)

\* the two statements that wait for the lock
LockSteps(t) == WriteLock(t) \/ AskLock(t)

\* the threads of SpecBus under a scheduler that lets a running thread run on (weak
\* fairness) and in which a thread waiting in acquire(), woken at every release(),
\* does not lose the lock for ever to the next calls of the thread that released it
\* (strong fairness: threading.RLock keeps no queue of waiters)
SpecLive ==
    /\ InitBus
    /\ [][NextBus]_vars
    /\ \A t \in Workers : WF_vars(RunSteps(t)) /\ SF_vars(LockSteps(t))

(***************************************************************************)
(* SpecShared: ps_initialization.py's two drivers, ps2 constructed on      *)
(* ps1.ser, each called by a thread of its own.                            *)
(***************************************************************************)
InitShared ==
    \E asa \in BOOLEAN :
        Constructed([d \in Drivers |-> d], [d \in Drivers |-> asa],
                    [d \in Drivers |-> 1], [d \in Drivers |-> Zup6_33],
                    [t \in Threads |-> IF t = "w2" THEN 2 ELSE 1])

NextShared ==
    \E t \in Workers, d \in Drivers :
        \/ WriteSteps(t)
        \/ AskSteps(t)
        \/ Call_clear_comm_buffer(t, d)
        \/ Finish_write(t)
        \/ Call_get_model(t, d)
        \/ Finish_get_model(t)

SpecShared == InitShared /\ [][NextShared]_vars

(***************************************************************************)
(* SpecSetters: one thread programs a unit of any rating, and of three     *)
(* ratings the format tables do not have.                                  *)
(***************************************************************************)
\* the rated maxima of the tables, in volts or amperes times Unit
RatedMaxima ==
    {ParseFloat(m[1]).val : m \in RatedTexts} \cup {ParseFloat(m[2]).val : m \in RatedTexts}

\* the values a caller passes: both zeros, every rated maximum and the next
\* hundredth above it, small values, values that need padding or rounding, and
\* negative values
CallerValues ==
    {Flt(FALSE, 0), Flt(TRUE, 0), Flt(TRUE, Unit \div 100), Flt(TRUE, Unit)}
    \cup {Flt(FALSE, m) : m \in RatedMaxima}
    \cup {Flt(FALSE, m + Unit \div 100) : m \in RatedMaxima}
    \cup {Flt(FALSE, k * (Unit \div 100)) : k \in {1, 50, 999}}
    \cup {Flt(FALSE, k * (Unit \div 32)) : k \in {1, 3, 319}}

InitSetters ==
    \E asa \in BOOLEAN, line \in RevLines :
        Constructed([d \in Drivers |-> d], [d \in Drivers |-> asa],
                    [d \in Drivers |-> d], [d \in Drivers |-> line],
                    [t \in Threads |-> 1])

NextSetters ==
    \E t \in SeqThreads, d \in SeqDrivers :
        \/ WriteSteps(t)
        \/ \E v \in CallerValues : Call_set_voltage(t, d, v)
        \/ \E v \in CallerValues : Call_set_current(t, d, v)
        \/ \E v \in CallerValues : Call_set_over_voltage_protection(t, d, v)
        \/ \E v \in CallerValues : Call_set_under_voltage_protection(t, d, v)
        \/ Finish_write(t)

SpecSetters == InitSetters /\ [][NextSetters]_vars

(***************************************************************************)
(* SpecGetters: one thread reads the three status flags of a unit that may *)
(* answer anything.                                                        *)
(***************************************************************************)
InitGetters ==
    \E asa \in BOOLEAN :
        Constructed([d \in Drivers |-> d], [d \in Drivers |-> asa],
                    [d \in Drivers |-> d], [d \in Drivers |-> Zup6_33],
                    [t \in Threads |-> 1])

NextGetters ==
    \E t \in SeqThreads, d \in SeqDrivers :
        \/ WriteSteps(t)
        \/ AskSteps(t)
        \/ Call_get_output(t, d)
        \/ Finish_get_output(t)
        \/ Call_get_foldback_protection(t, d)
        \/ Finish_get_foldback_protection(t)
        \/ Call_get_auto_restart_mode(t, d)
        \/ Finish_get_auto_restart_mode(t)

SpecGetters == InitGetters /\ [][NextGetters]_vars

(***************************************************************************)
(* SpecScalars: one thread calls the nine getters of one value on a unit   *)
(* that answers with the reply of any of them.                             *)
(***************************************************************************)
InitScalars ==
    \E asa \in BOOLEAN :
        ConstructedOn([p \in Ports |-> "tagged"],
                      [d \in Drivers |-> d], [d \in Drivers |-> asa],
                      [d \in Drivers |-> d], [d \in Drivers |-> Zup6_33],
                      [t \in Threads |-> 1])

NextScalars ==
    \E t \in SeqThreads, d \in SeqDrivers :
        \/ WriteSteps(t)
        \/ AskSteps(t)
        \/ \E g \in DOMAIN ScalarGetters : Call_get_scalar(t, d, g)
        \/ Finish_get_scalar(t)
        \/ Call_get_output(t, d)
        \/ Finish_get_output(t)
        \/ Call_get_foldback_protection(t, d)
        \/ Finish_get_foldback_protection(t)
        \/ Call_get_auto_restart_mode(t, d)
        \/ Finish_get_auto_restart_mode(t)

SpecScalars == InitScalars /\ [][NextScalars]_vars

(***************************************************************************)
(* SpecStatus: one thread reads the complete status of a unit that may     *)
(* answer anything.                                                        *)
(***************************************************************************)
NextStatus ==
    \E t \in SeqThreads, d \in SeqDrivers :
        \/ WriteSteps(t)
        \/ AskSteps(t)
        \/ Call_get_complete_status(t, d)
        \/ Finish_get_complete_status(t)

SpecStatus == InitGetters /\ [][NextStatus]_vars

(***************************************************************************)
(* SpecConnect: one thread constructs a driver on a unit that may answer   *)
(* anything, uses the setters that need the rated maxima, disconnects and  *)
(* constructs again.                                                       *)
(***************************************************************************)
\* a port name (a Serial object is opened on it) or an open Serial object
PortArgs == {[has_read |-> h, p |-> 1] : h \in BOOLEAN}

ConnectAddresses == {0, 1, 2, 32}

ConnectValues == {Flt(FALSE, 5 * Unit), Flt(FALSE, 40 * Unit)}

\* set_address(), set_address(2), set_address(32)
ConnectReaddresses == {<<>>, <<2>>, <<32>>}

InitConnect == NotConstructed([p \in Ports |-> "any"])

NextConnect ==
    \E t \in SeqThreads, d \in SeqDrivers :
        \/ WriteSteps(t)
        \/ AskSteps(t)
        \/ \E port \in PortArgs, adr \in ConnectAddresses, asa \in BOOLEAN :
              Call___init__(t, d, port, adr, asa)
        \/ Next___init__(t)
        \/ Finish___init__(t)
        \/ \E v \in ConnectValues : Call_set_voltage(t, d, v)
        \/ \E v \in ConnectValues : Call_set_current(t, d, v)
        \/ \E adr \in ConnectReaddresses : Call_set_address(t, d, adr)
        \/ Finish_set_address(t)
        \/ Call_get_software_revision(t, d)
        \/ Finish_get_software_revision(t)
        \/ Finish_write(t)
        \/ Call_disconnect(t, d)

SpecConnect == InitConnect /\ [][NextConnect]_vars

(***************************************************************************)
(* SpecModes: one thread sets the remote mode, the output, the foldback    *)
(* protection and the auto-restart mode, with any value as the mode.       *)
(***************************************************************************)
ModeArgs ==
    {PyStr(s) : s \in {"local", "non-latched", "latched", "remote", "arm", "release",
                       "cancel", "on", ""}}
    \cup {PyInt(n) : n \in -1..3}
    \cup {PyBool(TRUE), PyBool(FALSE), PyNone}

InitModes ==
    \E asa \in BOOLEAN :
        ConstructedOn([p \in Ports |-> "off"],
                      [d \in Drivers |-> d], [d \in Drivers |-> asa],
                      [d \in Drivers |-> d], [d \in Drivers |-> Zup6_33],
                      [t \in Threads |-> 1])

NextModes ==
    \E t \in SeqThreads, d \in SeqDrivers :
        \/ WriteSteps(t)
        \/ \E mode \in ModeArgs : Call_set_remote_mode(t, d, mode)
        \/ \E outp \in BOOLEAN : Call_set_output(t, d, outp)
        \/ \E fld \in ModeArgs : Call_set_foldback_protection(t, d, fld)
        \/ \E ast \in BOOLEAN : Call_set_auto_restart_mode(t, d, ast)
        \/ Finish_write(t)

SpecModes == InitModes /\ [][NextModes]_vars

(***************************************************************************)
(* SpecReads: one thread calls every read operation on a unit that is off: *)
(* no reply arrives and readline() returns the empty string at the timeout.*)
(***************************************************************************)
InitReads ==
    \E asa \in BOOLEAN :
        ConstructedOn([p \in Ports |-> "off"],
                      [d \in Drivers |-> d], [d \in Drivers |-> asa],
                      [d \in Drivers |-> d], [d \in Drivers |-> Zup6_33],
                      [t \in Threads |-> 1])

NextReads ==
    \E t \in SeqThreads, d \in SeqDrivers :
        \/ WriteSteps(t)
        \/ AskSteps(t)
        \/ Call_get_model(t, d)
        \/ Finish_get_model(t)
        \/ Call_get_remote_mode(t, d)
        \/ Finish_get_remote_mode(t)
        \/ Call_get_software_revision(t, d)
        \/ Finish_get_software_revision(t)
        \/ \E g \in DOMAIN ScalarGetters : Call_get_scalar(t, d, g)
        \/ Finish_get_scalar(t)
        \/ Call_get_output(t, d)
        \/ Finish_get_output(t)
        \/ Call_get_foldback_protection(t, d)
        \/ Finish_get_foldback_protection(t)
        \/ Call_get_auto_restart_mode(t, d)
        \/ Finish_get_auto_restart_mode(t)
        \/ Call_get_complete_status(t, d)
        \/ Finish_get_complete_status(t)

SpecReads == InitReads /\ [][NextReads]_vars

(***************************************************************************)
(* SpecOps: one thread calls every operation of a driver, closes its port  *)
(* and goes on calling, disconnects and constructs a driver again.  The    *)
(* unit was in order when the first driver was constructed and is off now. *)
(***************************************************************************)
OpAddresses == {<<>>, <<2>>, <<32>>}

OpModes == {PyStr("latched"), PyStr("cancel"), PyInt(1), PyInt(3)}

InitOps ==
    \E asa \in BOOLEAN :
        ConstructedOn([p \in Ports |-> "off"],
                      [d \in Drivers |-> d], [d \in Drivers |-> asa],
                      [d \in Drivers |-> d], [d \in Drivers |-> Zup6_33],
                      [t \in Threads |-> 1])

NextOps ==
    \E t \in SeqThreads, d \in SeqDrivers :
        \/ WriteSteps(t)
        \/ AskSteps(t)
        \/ \E port \in PortArgs, asa \in BOOLEAN : Call___init__(t, d, port, 1, asa)
        \/ Next___init__(t)
        \/ Finish___init__(t)
        \/ Call_close(t, d)
        \/ Call_disconnect(t, d)
        \/ \E adr \in OpAddresses : Call_set_address(t, d, adr)
        \/ Finish_set_address(t)
        \/ Call_clear_comm_buffer(t, d)
        \/ \E mode \in OpModes : Call_set_remote_mode(t, d, mode)
        \/ \E v \in ConnectValues :
              \/ Call_set_voltage(t, d, v)
              \/ Call_set_current(t, d, v)
              \/ Call_set_over_voltage_protection(t, d, v)
              \/ Call_set_under_voltage_protection(t, d, v)
        \/ \E b \in BOOLEAN : Call_set_output(t, d, b) \/ Call_set_auto_restart_mode(t, d, b)
        \/ \E fld \in OpModes : Call_set_foldback_protection(t, d, fld)
        \/ Finish_write(t)
        \/ Call_get_remote_mode(t, d)
        \/ Finish_get_remote_mode(t)
        \/ Call_get_model(t, d)
        \/ Finish_get_model(t)
        \/ Call_get_software_revision(t, d)
        \/ Finish_get_software_revision(t)
        \/ \E g \in DOMAIN ScalarGetters : Call_get_scalar(t, d, g)
        \/ Finish_get_scalar(t)
        \/ Call_get_output(t, d)
        \/ Finish_get_output(t)
        \/ Call_get_foldback_protection(t, d)
        \/ Finish_get_foldback_protection(t)
        \/ Call_get_auto_restart_mode(t, d)
        \/ Finish_get_auto_restart_mode(t)
        \/ Call_get_complete_status(t, d)
        \/ Finish_get_complete_status(t)

SpecOps == InitOps /\ [][NextOps]_vars

(***************************************************************************)
(* Claims                                                                  *)
(***************************************************************************)
Last(q) == q[Len(q)]

\* n as two decimal digits, 0 <= n < 100
TwoDigits(n) == <<DigitChars[(n \div 10) + 1], DigitChars[(n % 10) + 1]>>

\* the text ":ADRnn;"
AdrText(n) == <<":", "A", "D", "R">> \o TwoDigits(n) \o <<";">>

StartsAndEnds(x) == Len(x) >= 1 /\ x[1] = ":" /\ x[Len(x)] = ";"

\* C1: on a transport that two drivers share, an address-select written by one
\* driver is never immediately followed by a command written by the other driver.
C1_SelectThenOwnCommand ==
    \A p \in Ports :
        (Len(wire[p]) = 2 /\ wire[p][1].io = "select" /\ wire[p][2].io = "cmd")
            => wire[p][2].drv = wire[p][1].drv

\* C2: a query of one driver is atomic among the threads of that driver: from the
\* write of its command to the read of its reply the last transport event of the
\* driver is the query's own, the only line waiting is the answer to its own
\* command, and the line it reads is that answer (or nothing, after the timeout).
C2_AskAtomic ==
    \A t \in Workers :
        LET d == frame[t].self IN
        /\ (frame[t].via = "ask" /\ pc[t] \in {"write_unlock", "ask_read"})
              => /\ sent[d] = <<Sent("cmd", t, t)>>
                 /\ lock[d].owner = <<t>>
                 /\ \A i \in 1..Len(rx[ser[d]]) : i = 1 /\ rx[ser[d]][i].to = t
        /\ pc[t] = "ask_unlock"
              => /\ sent[d] = <<Sent("read", t, t)>>
                 /\ lock[d].owner = <<t>>
                 /\ rx[ser[d]] = <<>>

\* a query has read its answer while the other thread waits to make a query
C2_Witness ==
    /\ pc["w1"] = "ask_unlock"
    /\ frame["w1"].resp # <<>>
    /\ pc["w2"] = "ask_lock"

\* C3 (while a call is under way): with always_send_address, between the prefix and
\* the command, and until the lock is released, the caller holds the lock and the
\* driver's last write is the caller's own; the call wrote the prefix and then the
\* command. Without always_send_address the call writes the command alone.
C3_PrefixState ==
    \A t \in Workers :
        LET d == frame[t].self
            w == frame[t].wrote
        IN
        /\ pc[t] \in {"write_adr", "write_sleep", "write_cmd", "write_unlock"}
              => lock[d].owner = <<t>>
        /\ (always_send_address[d] /\ pc[t] \in {"write_sleep", "write_cmd"})
              => sent[d] = <<Sent("adr", t, t)>> /\ Len(w) = 1 /\ w[1].io = "adr"
        /\ (always_send_address[d] /\ pc[t] = "write_unlock")
              => /\ sent[d] = <<Sent("cmd", t, t)>>
                 /\ Len(w) = 2 /\ w[1].io = "adr" /\ w[2] = [io |-> "cmd", data |-> frame[t].cmd]
        /\ ~always_send_address[d]
              => /\ pc[t] \notin {"write_adr", "write_sleep"}
                 /\ \A i \in 1..Len(w) : w[i].io # "adr"
                 /\ pc[t] = "write_unlock" => w = <<[io |-> "cmd", data |-> frame[t].cmd]>>

\* C3 (the step that writes the prefix): the prefix is ":ADRnn;" with nn the two
\* digits of the address the driver remembers at that moment.
C3_PrefixStep ==
    \A t \in Workers :
        (pc[t] = "write_adr" /\ pc'[t] = "write_sleep")
            => Last(frame'[t].wrote).data = AdrText(address[frame[t].self])

\* C3: every command of a driver that always sends its address is immediately
\* preceded, among that driver's writes, by ":ADRnn;" for the remembered address,
\* within one hold of the lock; a driver that does not writes the command alone.
C3_AddressPrefix == []C3_PrefixState /\ [][C3_PrefixStep]_vars

\* a command follows its prefix for an address changed by set_address, while the
\* other thread waits for the lock
C3_Witness ==
    /\ pc["w1"] = "write_unlock"
    /\ always_send_address[1]
    /\ address[1] = 3
    /\ frame["w1"].wrote = <<[io |-> "adr", data |-> AdrText(3)],
                             [io |-> "cmd", data |-> CmdDCL]>>
    /\ pc["w2"] = "write_lock"

\* C4: every text written to the transport begins with ":" and ends with ";", and
\* a _write of a text that does not raises without writing anything.
C4_Framing ==
    \A t \in SeqThreads :
        /\ \A i \in 1..Len(frame[t].wrote) :
              frame[t].wrote[i].io # "read" => StartsAndEnds(frame[t].wrote[i].data)
        /\ \A i \in 1..Len(outcome[t].wrote) :
              outcome[t].wrote[i].io # "read" => StartsAndEnds(outcome[t].wrote[i].data)
        /\ (frame[t].op = "_write" /\ ~StartsAndEnds(frame[t].arg))
              => pc[t] = "write_assert" /\ frame[t].wrote = <<>>
        /\ (outcome[t].op = "_write" /\ ~StartsAndEnds(outcome[t].arg))
              => outcome[t].status = "raised" /\ outcome[t].wrote = <<>>

\* _write(":DCL") on a driver that always sends its address has raised
C4_Witness ==
    /\ outcome["main"].op = "_write"
    /\ outcome["main"].arg = <<":", "D", "C", "L">>
    /\ outcome["main"].status = "raised"
    /\ always_send_address[1]

OutsideAddressRange(arg) == arg # <<>> /\ ~(1 <= arg[1] /\ arg[1] <= 31)

\* C5: set_address(a) with an integer a outside 1..31 writes nothing and raises.
C5_RejectsOutsideRange ==
    \A t \in SeqThreads :
        /\ (frame[t].op = "set_address" /\ OutsideAddressRange(frame[t].arg))
              => frame[t].wrote = <<>>
        /\ (outcome[t].op = "set_address" /\ OutsideAddressRange(outcome[t].arg))
              => outcome[t].status = "raised" /\ outcome[t].wrote = <<>>

InsideAddressRange(arg) == arg # <<>> /\ 1 <= arg[1] /\ arg[1] <= 31

\* C6 (after the call): set_address(a), 1 <= a <= 31, returns a unless the
\* transport fails; it has then written ":ADRaa;" as its command and the driver
\* remembers a. Every prefix names the address remembered when it was written.
C6_AfterCall ==
    \A t \in SeqThreads :
        LET o == outcome[t]
            d == frame[t].self
        IN
        /\ (o.op = "set_address" /\ InsideAddressRange(o.arg))
              => /\ o.status = "raised" => ~is_open[ser[d]]
                 /\ o.status = "returned"
                       => /\ o.val = o.arg
                          /\ address[d] = o.arg[1]
                          /\ Last(o.wrote) = [io |-> "cmd", data |-> AdrText(o.arg[1])]
                          /\ Len(o.wrote) = IF always_send_address[d] THEN 2 ELSE 1
        /\ \A i \in 1..Len(frame[t].wrote) :
              frame[t].wrote[i].io = "adr" => frame[t].wrote[i].data = AdrText(address[d])
        /\ (o.op # "set_address" /\ o.wrote # <<>> /\ o.wrote[1].io = "adr")
              => o.wrote[1].data = AdrText(address[d])

\* C6 (each step): the remembered address changes only when a set_address whose
\* command was written returns, and then to the address of that command.
C6_AddressStep ==
    \A d \in Drivers :
        address'[d] # address[d]
            => \E t \in SeqThreads :
                  /\ frame[t].op = "set_address" /\ frame[t].self = d
                  /\ outcome'[t].status = "returned"
                  /\ InsideAddressRange(<<address'[d]>>)
                  /\ Last(frame[t].wrote) = [io |-> "cmd", data |-> AdrText(address'[d])]

\* C6: set_address(a) with 1 <= a <= 31 writes ":ADRaa;", and on return the driver
\* remembers a; when the write fails the remembered address stays.
C6_SelectAddress == []C6_AfterCall /\ [][C6_AddressStep]_vars

\* set_address(31) has returned on a driver that was at address 1
C6_Witness ==
    /\ outcome["main"].op = "set_address"
    /\ outcome["main"].arg = <<31>>
    /\ outcome["main"].status = "returned"
    /\ address[1] = 31
    /\ outcome["main"].wrote = <<[io |-> "adr", data |-> AdrText(1)],
                                 [io |-> "cmd", data |-> AdrText(31)]>>

SetterOps == {"set_voltage", "set_current", "set_over_voltage_protection",
              "set_under_voltage_protection"}

\* the rated maximum a setter's value is held against, times Unit
RatedMax(op, d) == IF op = "set_current" THEN max_current[d][1] ELSE max_voltage[d][1] * Unit

OutsideRange(x, max) == Num(x) < 0 \/ Num(x) > max

Table5_1 ==
    6 :> <<"6", ".", "0", "0", "0">>
    @@ 10 :> <<"1", "0", ".", "0", "0", "0">>
    @@ 20 :> <<"2", "0", ".", "0", "0", "0">>
    @@ 36 :> <<"3", "6", ".", "0", "0">>
    @@ 60 :> <<"6", "0", ".", "0", "0">>
    @@ 80 :> <<"8", "0", ".", "0", "0">>
    @@ 120 :> <<"1", "2", "0", ".", "0", "0">>

\* Table 5-2 of set_current's documentation: the MAX. column, by rating
Table5_2 ==
    <<6, Amp(33, 0)>> :> <<"3", "3", ".", "0", "0">>
    @@ <<6, Amp(66, 0)>> :> <<"6", "6", ".", "0", "0">>
    @@ <<6, Amp(132, 0)>> :> <<"1", "3", "2", ".", "0", "0">>
    @@ <<10, Amp(20, 0)>> :> <<"2", "0", ".", "0", "0", "0">>
    @@ <<10, Amp(40, 0)>> :> <<"4", "0", ".", "0", "0">>
    @@ <<10, Amp(80, 0)>> :> <<"8", "0", ".", "0", "0">>
    @@ <<20, Amp(10, 0)>> :> <<"1", "0", ".", "0", "0", "0">>
    @@ <<20, Amp(20, 0)>> :> <<"2", "0", ".", "0", "0", "0">>
    @@ <<20, Amp(40, 0)>> :> <<"4", "0", ".", "0", "0">>
    @@ <<36, Amp(6, 0)>> :> <<"6", ".", "0", "0", "0">>
    @@ <<36, Amp(12, 0)>> :> <<"1", "2", ".", "0", "0", "0">>
    @@ <<36, Amp(24, 0)>> :> <<"2", "4", ".", "0", "0", "0">>
    @@ <<60, Amp(3, 5)>> :> <<"3", ".", "5", "0", "0">>
    @@ <<60, Amp(7, 0)>> :> <<"7", ".", "0", "0", "0">>
    @@ <<60, Amp(14, 0)>> :> <<"1", "4", ".", "0", "0", "0">>
    @@ <<80, Amp(2, 5)>> :> <<"2", ".", "5", "0", "0", "0">>
    @@ <<80, Amp(5, 0)>> :> <<"5", ".", "0", "0", "0">>
    @@ <<120, Amp(1, 8)>> :> <<"1", ".", "8", "0", "0", "0">>
    @@ <<120, Amp(3, 6)>> :> <<"3", ".", "6", "0", "0">>

\* total characters and decimals of a numeral of the tables
Shape(txt) ==
    [w |-> Len(txt), d |-> Len(txt) - (CHOOSE i \in 1..Len(txt) : txt[i] = ".")]

\* arg has the total width of the numeral `doc`, and after its point the same
\* number of decimals
ShapedLike(arg, doc) ==
    /\ Len(arg) = Shape(doc).w
    /\ \A i \in 1..Len(arg) :
          /\ i = Len(arg) - Shape(doc).d => arg[i] = "."
          /\ i > Len(arg) - Shape(doc).d => IsDigit(arg[i])

\* what a call wrote besides the address prefix
Commands(w) == SelectSeq(w, LAMBDA e : e.io # "adr")

\* the one command ":<verb><arg>;" with arg shaped like doc
OneCommand(w, verb, doc) ==
    /\ Len(Commands(w)) = 1
    /\ Commands(w)[1].io = "cmd"
    /\ LET c == Commands(w)[1].data IN
       /\ Len(c) > 5
       /\ SubSeq(c, 1, 4) = <<":">> \o verb
       /\ c[Len(c)] = ";"
       /\ ShapedLike(SubSeq(c, 5, Len(c) - 1), doc)

\* C8: on a unit of a rating the tables document, set_voltage(v) with v in
\* [0, rated voltage] returns having written one command ":VOL<arg>;", and
\* set_current(v) with v in [0, rated current] one command ":CUR<arg>;", with arg
\* of the documented width and decimals.
C8_DocumentedWidth ==
    \A t \in SeqThreads :
        LET o == outcome[t]
            d == frame[t].self
            V == max_voltage[d][1]
            K == <<max_voltage[d][1], max_current[d][1]>>
        IN
        /\ (o.op = "set_voltage" /\ V \in DOMAIN Table5_1
            /\ ~OutsideRange(o.arg[1], RatedMax(o.op, d)))
              => o.status = "returned" /\ OneCommand(o.wrote, <<"V", "O", "L">>, Table5_1[V])
        /\ (o.op = "set_current" /\ K \in DOMAIN Table5_2
            /\ ~OutsideRange(o.arg[1], RatedMax(o.op, d)))
              => o.status = "returned" /\ OneCommand(o.wrote, <<"C", "U", "R">>, Table5_2[K])

\* C9: on a unit whose rated voltage (set_voltage) or rating (set_current) the
\* format table does not have, the setter never reaches _write: it raises and has
\* written nothing.
C9_UnknownRating ==
    \A t \in SeqThreads :
        LET o == outcome[t]
            d == frame[t].self
            V == max_voltage[d][1]
            K == <<max_voltage[d][1], max_current[d][1]>>
        IN
        /\ frame[t].op = "set_voltage" => V \in DOMAIN Table5_1
        /\ frame[t].op = "set_current" => K \in DOMAIN Table5_2
        /\ (o.op = "set_voltage" /\ V \notin DOMAIN Table5_1)
              => o.status = "raised" /\ o.wrote = <<>>
        /\ (o.op = "set_current" /\ K \notin DOMAIN Table5_2)
              => o.status = "raised" /\ o.wrote = <<>>

\* set_current(6.0) has raised on a unit that reports 6 V and 34 A
C9_Witness ==
    /\ outcome["main"].op = "set_current"
    /\ outcome["main"].arg = <<Flt(FALSE, 6 * Unit)>>
    /\ outcome["main"].status = "raised"
    /\ max_voltage[1] = <<6>>
    /\ max_current[1] = <<34 * Unit>>
    /\ always_send_address[1]

BoolOps == {"get_output", "get_foldback_protection", "get_auto_restart_mode"}

TagOf(op) == IF op = "get_output" THEN <<"O", "T">>
             ELSE IF op = "get_foldback_protection" THEN <<"F", "D">>
             ELSE <<"A", "S">>

FlagOf(op, d) == IF op = "get_output" THEN output[d]
                 ELSE IF op = "get_foldback_protection" THEN foldback_armed[d]
                 ELSE auto_restart_mode[d]

\* the line a query read, without its trailing white space
StrippedReply(w) == RStrip(Last(w).data)

\* C10 (after the call): a boolean getter that read a line has returned true when
\* the stripped line is tag+"1", false when it is tag+"0", and has raised for every
\* other line; the value it returned is the flag the driver stores.
C10_AfterCall ==
    \A t \in SeqThreads :
        LET o == outcome[t]
            d == frame[t].self
        IN
        (o.op \in BoolOps /\ o.wrote # <<>> /\ Last(o.wrote).io = "read")
            => /\ StrippedReply(o.wrote) = TagOf(o.op) \o <<"1">>
                    <=> (o.status = "returned" /\ o.val = <<TRUE>>)
               /\ StrippedReply(o.wrote) = TagOf(o.op) \o <<"0">>
                    <=> (o.status = "returned" /\ o.val = <<FALSE>>)
               /\ o.status \in {"returned", "raised"}
               /\ o.status = "returned" => FlagOf(o.op, d) = o.val

\* C10 (each step): a getter that raises leaves the three stored flags as they were.
C10_RaiseStep ==
    \A t \in SeqThreads :
        (frame[t].op \in BoolOps /\ pc'[t] = "idle" /\ outcome'[t].status = "raised")
            => flags' = flags

\* C10: each boolean getter returns true exactly for tag+"1", false exactly for
\* tag+"0", raises for any other reply, and on error keeps the stored flag.
C10_BooleanGetters == []C10_AfterCall /\ [][C10_RaiseStep]_vars

\* get_output has raised on the reply "OT2" and the stored flag is still true
C10_Witness ==
    /\ outcome["main"].op = "get_output"
    /\ outcome["main"].status = "raised"
    /\ outcome["main"].wrote # <<>>
    /\ Last(outcome["main"].wrote) = [io |-> "read", data |-> <<"O", "T", "2">> \o EOL]
    /\ output[1] = <<TRUE>>

\* the tag each of the nine getters of one value expects
ExpectedTag ==
    "get_voltage_setp" :> <<"S", "V">> @@ "get_voltage_actual" :> <<"A", "V">>
    @@ "get_current_setp" :> <<"S", "A">> @@ "get_current_actual" :> <<"A", "A">>
    @@ "get_over_voltage_protection" :> <<"O", "P">>
    @@ "get_under_voltage_protection" :> <<"U", "P">>
    @@ "get_output" :> <<"O", "T">> @@ "get_foldback_protection" :> <<"F", "D">>
    @@ "get_auto_restart_mode" :> <<"A", "S">>

\* the line has two characters or more and they are not the expected tag
OtherTag(line, op) == Len(line) >= 2 /\ SubSeq(line, 1, 2) # ExpectedTag[op]

\* C11 (after the call): a getter of one value that read a line with the tag of
\* another query has raised.
C11_AfterCall ==
    \A t \in SeqThreads :
        LET o == outcome[t] IN
        (o.op \in DOMAIN ExpectedTag /\ o.wrote # <<>> /\ Last(o.wrote).io = "read"
         /\ OtherTag(Last(o.wrote).data, o.op))
            => o.status = "raised"

\* C11 (each step): the step that ends such a call leaves every stored value.
C11_RaiseStep ==
    \A t \in SeqThreads :
        (frame[t].op \in DOMAIN ExpectedTag /\ pc[t] = "finish" /\ pc'[t] = "idle"
         /\ OtherTag(frame[t].resp, frame[t].op))
            => /\ readings' = readings
               /\ flags' = flags
               /\ outcome'[t].status = "raised"

\* C11: each getter of one value holds the reply's tag against its own; a reply
\* with another tag, such as the reply of a different query, raises and leaves the
\* stored values.
C11_TagChecked == []C11_AfterCall /\ [][C11_RaiseStep]_vars

\* get_voltage_setp has raised on the reply "AV5.010" and the set voltage stored
\* by an earlier call is still there
C11_Witness ==
    /\ outcome["main"].op = "get_voltage_setp"
    /\ outcome["main"].status = "raised"
    /\ outcome["main"].wrote # <<>>
    /\ Last(outcome["main"].wrote) =
          [io |-> "read", data |-> <<"A", "V", "5", ".", "0", "1", "0">> \o EOL]
    /\ readings[1].voltage_setp = <<(501 * Unit) \div 100>>

ReadOps ==
    {"get_model", "get_remote_mode", "get_software_revision", "get_complete_status",
     "get_output", "get_foldback_protection", "get_auto_restart_mode"}
    \cup DOMAIN ScalarGetters

\* C12: a read operation whose reply was empty has raised, and no attribute of
\* the driver holds the empty reply.
C12_EmptyReplyRaises ==
    \A t \in SeqThreads :
        LET o == outcome[t]
            d == frame[t].self
        IN
        (o.op \in ReadOps /\ o.wrote # <<>> /\ Last(o.wrote).io = "read"
         /\ RStrip(Last(o.wrote).data) = <<>>)
            => /\ o.status = "raised"
               /\ model[d] # << <<>> >>
               /\ readings[d].remote_mode # << <<>> >>

\* the number each numeral of the reports stands for, times Unit
Thousandths(k) == (k * Unit) \div 1000

NumeralValue ==
    <<"5", ".", "0", "1", "0">> :> Thousandths(5010) @@ <<"0", "0", ".", "0", "0">> :> 0 @@ <<"2", "4", ".", "3", "1">> :> Thousandths(24310)
    @@ <<"+", "1", "2", ".", "5">> :> Thousandths(12500) @@ <<"-", ".", "5">> :> 0 - Thousandths(500)
    @@ <<"0", ".", "2", "5">> :> Thousandths(250) @@ <<".", "5">> :> Thousandths(500)

\* what get_complete_status returns for the report r
ReportValue(r) ==
    <<NumeralValue[r.av], NumeralValue[r.sv], NumeralValue[r.aa], NumeralValue[r.sa],
      r.os, r.al, r.ps>>

\* the last get_complete_status of each thread that read the line of a report
\* among `reports` has returned the seven fields of that report, in order
ReturnsFields(reports) ==
    \A t \in SeqThreads : \A r \in reports :
        LET o == outcome[t] IN
        (o.op = "get_complete_status" /\ o.wrote # <<>>
         /\ Last(o.wrote) = [io |-> "read", data |-> StatusLine(r) \o EOL])
            => o.status = "returned" /\ o.val = <<ReportValue(r)>>

\* C13 as claimed: for every reply line AV<f>SV<f>AA<f>SA<f>OS<d+>AL<d+>PS<d+>,
\* whatever the length of its registers, get_complete_status returns actual
\* voltage, set voltage, actual current, set current and the three register
\* strings, each equal to its field of the reply.
C13_EveryReport == ReturnsFields(StatusReports \cup OddStatusReports)

FullRegisters(r) == Len(r.os) >= 8 /\ Len(r.al) >= 5 /\ Len(r.ps) >= 5

\* C13 as amended: the same for every reply line whose operational register has
\* at least 8 digits and whose alarm and programming registers have at least 5.
C13_FullReport ==
    ReturnsFields({r \in StatusReports \cup OddStatusReports : FullRegisters(r)})

\* get_complete_status has returned 5.010, 5.010, 0.00, 24.31, "00010000", "00000",
\* "00000" for the documented example
C13_Witness ==
    /\ outcome["main"].op = "get_complete_status"
    /\ outcome["main"].status = "returned"
    /\ Last(outcome["main"].wrote).data =
          StatusLine(ExampleWith(OneHot(8, 4), Zeros(5), Zeros(5))) \o EOL
    /\ outcome["main"].val =
          << <<Thousandths(5010), Thousandths(5010), 0, Thousandths(24310),
               <<"0", "0", "0", "1", "0", "0", "0", "0">>, Zeros(5), Zeros(5)>> >>

\* the lines that are a report with an operational register of 8 bits and alarm
\* and programming registers of at least 5
FullReportLines ==
    {StatusLine(r) : r \in {x \in StatusReports \cup OddStatusReports :
                                Len(x.os) = 8 /\ Len(x.al) >= 5 /\ Len(x.ps) >= 5}}

\* C14: a get_complete_status whose reply is no such line raises, and the step in
\* which it does leaves every stored voltage, current, register and flag.
C14_NoPartialResult ==
    [][\A t \in SeqThreads :
          (frame[t].op = "get_complete_status" /\ pc[t] = "finish" /\ pc'[t] = "idle"
           /\ frame[t].resp \notin FullReportLines)
              => /\ outcome'[t].status = "raised"
                 /\ stored' = stored
                 /\ flags' = flags]_vars

IsBits(reg) == \A i \in 1..Len(reg) : reg[i] \in {"0", "1"}

\* C15: after a get_complete_status that returned registers of bits, every flag
\* the driver stores is the bit at its position of the register returned, and the
\* registers stored are the registers returned.
C15_FlagsAreBits ==
    \A t \in SeqThreads :
        LET o == outcome[t]
            d == frame[t].self
            c == complete_status[d]
            os == o.val[1][5]
            al == o.val[1][6]
            ps == o.val[1][7]
        IN
        (o.op = "get_complete_status" /\ o.status = "returned"
         /\ IsBits(os) /\ IsBits(al) /\ IsBits(ps))
            => /\ c.operational_status_register = <<os>>
               /\ c.alarm_status_register = <<al>>
               /\ c.programming_status_register = <<ps>>
               /\ c.cc_cv = <<os[1] = "1">>
               /\ foldback_armed[d] = <<os[2] = "1">>
               /\ auto_restart_mode[d] = <<os[3] = "1">>
               /\ output[d] = <<os[4] = "1">>
               /\ c.foldback_srq = <<os[5] = "1">>
               /\ c.over_voltage_srq = <<os[6] = "1">>
               /\ c.over_temp_srq = <<os[7] = "1">>
               /\ c.alarm_active = <<os[8] = "1">>
               /\ c.alarm_ovp = <<al[1] = "1">>
               /\ c.alarm_otp = <<al[2] = "1">>
               /\ c.alarm_ac_fail = <<al[3] = "1">>
               /\ c.alarm_foldback = <<al[4] = "1">>
               /\ c.alarm_prog = <<al[5] = "1">>
               /\ c.prog_err_wrong_command = <<ps[2] = "1">>
               /\ c.prog_err_buffer_overflow = <<ps[3] = "1">>
               /\ c.prog_err_wrong_voltage = <<ps[4] = "1">>
               /\ c.prog_err_wrong_current = <<ps[5] = "1">>

\* after the registers "00010000", "00000", "00000" only the output flag is true
C15_Witness ==
    /\ outcome["main"].op = "get_complete_status"
    /\ outcome["main"].status = "returned"
    /\ complete_status[1].operational_status_register = <<OneHot(8, 4)>>
    /\ complete_status[1].alarm_status_register = <<Zeros(5)>>
    /\ complete_status[1].programming_status_register = <<Zeros(5)>>
    /\ output[1] = <<TRUE>>
    /\ foldback_armed[1] = <<FALSE>>
    /\ auto_restart_mode[1] = <<FALSE>>
    /\ \A f \in {"cc_cv", "foldback_srq", "over_voltage_srq", "over_temp_srq",
                 "alarm_active", "alarm_ovp", "alarm_otp", "alarm_ac_fail",
                 "alarm_foldback", "alarm_prog", "prog_err_wrong_command",
                 "prog_err_buffer_overflow", "prog_err_wrong_voltage",
                 "prog_err_wrong_current"} : complete_status[1][f] = <<FALSE>>

\* the commands among the events of a call, without the address prefixes
RECURSIVE CmdsOf(_)
CmdsOf(w) == IF w = <<>> THEN <<>>
             ELSE IF Head(w).io = "cmd" THEN <<Head(w).data>> \o CmdsOf(Tail(w))
             ELSE CmdsOf(Tail(w))

\* what a call has written holds :DCL; only if the call is clear_comm_buffer, and
\* the events of a clear_comm_buffer hold no read
ClearsOnlyOnDemand(op, wrote) ==
    /\ \A i \in 1..Len(wrote) :
          (wrote[i].io # "read" /\ wrote[i].data = CmdDCL) => op = "clear_comm_buffer"
    /\ op = "clear_comm_buffer" => \A i \in 1..Len(wrote) : wrote[i].io # "read"

\* C16: of all the operations and the constructor, in progress or finished, only
\* clear_comm_buffer has written :DCL;, and it has read no reply; when it has
\* returned, :DCL; is the one command it has written.
C16_ClearOnlyByClear ==
    \A t \in SeqThreads :
        /\ ClearsOnlyOnDemand(frame[t].op, frame[t].wrote)
        /\ ClearsOnlyOnDemand(outcome[t].op, outcome[t].wrote)
        /\ (outcome[t].op = "clear_comm_buffer" /\ outcome[t].status = "returned")
              => CmdsOf(outcome[t].wrote) = <<CmdDCL>>

\* clear_comm_buffer has returned, having written :DCL; after the address prefix
C16_Witness ==
    /\ outcome["main"].op = "clear_comm_buffer"
    /\ outcome["main"].status = "returned"
    /\ outcome["main"].wrote =
          <<[io |-> "adr", data |-> <<":", "A", "D", "R", "0", "1", ";">>],
            [io |-> "cmd", data |-> <<":", "D", "C", "L", ";">>]>>

\* the mode a value names: its name or its number
Names(x, name, k) == PyEq(x, PyStr(name)) \/ PyEq(x, PyInt(k))

\* the last call of each thread, made with `op` and a mode among `modes` (the i-th
\* mode has the number i - 1), has written cmd(number) and nothing else but the
\* address prefix; made with any other value it has raised and written nothing
AcceptsExactly(op, modes, cmd(_)) ==
    \A t \in SeqThreads :
        LET o == outcome[t] IN
        o.op = op =>
            IF \E k \in 1..Len(modes) : Names(o.arg[1], modes[k], k - 1)
            THEN \E k \in 1..Len(modes) :
                    /\ Names(o.arg[1], modes[k], k - 1)
                    /\ o.status = "returned"
                    /\ Last(o.wrote) = [io |-> "cmd", data |-> cmd(Digits(k - 1))]
                    /\ \A i \in 1..(Len(o.wrote) - 1) : o.wrote[i].io = "adr"
            ELSE o.status = "raised" /\ o.wrote = <<>>

\* C17: set_remote_mode writes :RMT0; for local, :RMT1; for non-latched and :RMT2;
\* for latched; with any other value it raises and writes nothing.
C17_RemoteModes == AcceptsExactly("set_remote_mode", <<"local", "non-latched", "latched">>, CmdRMT)

\* set_remote_mode(3) has raised and written nothing
C17_Witness ==
    /\ outcome["main"].op = "set_remote_mode"
    /\ outcome["main"].arg = <<PyInt(3)>>
    /\ outcome["main"].status = "raised"
    /\ outcome["main"].wrote = <<>>

\* C18: set_foldback_protection writes :FLD0; for release, :FLD1; for arm and
\* :FLD2; for cancel; with any other value it raises and writes nothing.
C18_FoldbackModes == AcceptsExactly("set_foldback_protection", <<"release", "arm", "cancel">>, CmdFLD)

IsPrefixOf(a, b) == Len(a) <= Len(b) /\ a = SubSeq(b, 1, Len(a))

Established(d) ==
    max_voltage[d] # <<>> /\ max_current[d] # <<>> /\ software_revision[d] # <<>>

\* C19: a constructor writes the address-select of its address and then :REV?;,
\* and no other command; it returns only after a revision line that parses, and
\* then the three attributes of the identity are set; a thread holds a driver, or
\* is in a method of it, only if the identity of that driver is established.
C19_Construction ==
    \A t \in SeqThreads :
        LET f == frame[t]
            o == outcome[t]
        IN
        /\ f.op = "__init__"
              => /\ IsPrefixOf(CmdsOf(f.wrote), <<AdrCmd(f.arg[2]), CmdREVq>>)
                 /\ \A i \in 1..Len(f.wrote) :
                       f.wrote[i].io = "adr" => f.wrote[i].data = AdrCmd(f.arg[2])
        /\ (o.op = "__init__" /\ o.status = "returned")
              => /\ CmdsOf(o.wrote) = <<AdrCmd(o.arg[2]), CmdREVq>>
                 /\ Last(o.wrote).io = "read"
                 /\ Last(o.wrote).data \in RevLines
                 /\ f.self # 0
                 /\ Established(f.self)
        /\ (o.op = "__init__" /\ o.status = "raised") => f.self = 0
        /\ (f.self # 0 /\ f.op # "__init__") => Established(f.self)

\* a constructor has returned on a unit that answered "Ver 6-33 1.0", and the
\* driver has the maxima 6 V and 33 A
C19_Witness ==
    /\ outcome["main"].op = "__init__"
    /\ outcome["main"].status = "returned"
    /\ frame["main"].self = 1
    /\ max_voltage[1] = <<6>>
    /\ max_current[1] = <<33 * Unit>>
    /\ software_revision[1] = << <<"1", ".", "0">> >>

ProtocolOps ==
    ReadOps \cup (WriteOnlyOps \ {"_write"}) \cup {"set_address"}

\* C20: while the port of the driver a thread holds is closed, the call the thread
\* is in has written nothing, and the protocol operation it made last has raised
\* and written nothing.
C20_ClosedFails ==
    \A t \in SeqThreads :
        LET d == frame[t].self IN
        (d # 0 /\ ~is_open[ser[d]])
            => /\ frame[t].wrote = <<>>
               /\ (outcome[t].op \in ProtocolOps)
                     => (outcome[t].status = "raised" /\ outcome[t].wrote = <<>>)

\* C25: on a unit whose rated voltage the table v_format_strs has, a
\* set_over_voltage_protection(v) or set_under_voltage_protection(v) that has
\* returned has written its command with v in the format the table has for the
\* rated voltage.
C25_TableFormat ==
    \A t \in SeqThreads :
        LET o == outcome[t]
            V == max_voltage[frame[t].self][1]
            f == v_format_strs[V]
        IN
        /\ (o.op = "set_over_voltage_protection" /\ o.status = "returned"
            /\ V \in DOMAIN v_format_strs)
              => Last(o.wrote) = [io |-> "cmd", data |-> CmdOVP(FormatF(f.w, f.d, o.arg[1]))]
        /\ (o.op = "set_under_voltage_protection" /\ o.status = "returned"
            /\ V \in DOMAIN v_format_strs)
              => Last(o.wrote) = [io |-> "cmd", data |-> CmdUVP(FormatF(f.w, f.d, o.arg[1]))]

\* C24: in a step of a thread that holds a constructed driver, the rated maximum
\* voltage, the rated maximum current and the revision of that driver stay as
\* they are, and its address changes only in the step in which a set_address
\* returns.
C24_IdentityFixed ==
    [][\A t \in SeqThreads :
          LET d == frame[t].self IN
          (d # 0 /\ frame[t].op # "__init__" /\ frame'[t].self = d)
              => /\ max_voltage'[d] = max_voltage[d]
                 /\ max_current'[d] = max_current[d]
                 /\ software_revision'[d] = software_revision[d]
                 /\ (address'[d] # address[d])
                       => (frame[t].op = "set_address" /\ outcome'[t].status = "returned")]_vars

\* C21: in the step in which a transport is closed no thread holds the lock of a
\* driver of that transport: no write, and no write followed by a read, is under
\* way.
C21_CloseWaits ==
    [][\A p \in Ports :
          (is_open[p] /\ ~is_open'[p])
              => \A d \in Drivers : ser[d] = p => lock[d] = Free]_vars

\* C22: while the delay after an address-select has not elapsed (the sleep after
\* the prefix in _write, the sleep after the command of set_address), the last
\* write or read of the driver is that address-select.
C22_SettleDelay ==
    \A t \in Workers :
        LET d == frame[t].self IN
        /\ pc[t] = "write_sleep" => sent[d] = <<Sent("adr", t, t)>>
        /\ (frame[t].op = "set_address" /\ pc[t] = "finish")
              => sent[d] = <<Sent("cmd", t, t)>>

\* the number of `with self.lock` blocks a thread is in: the block of _ask from its
\* entry to its end, the block of _write from its entry to its end
Depth(t) ==
    (IF frame[t].via = "ask" /\ pc[t] \in {"write_assert", "write_lock", "write_adr", "write_sleep",
                                          "write_cmd", "write_unlock", "ask_read", "ask_unlock"}
     THEN 1 ELSE 0)
    + (IF pc[t] \in {"write_adr", "write_sleep", "write_cmd", "write_unlock"} THEN 1 ELSE 0)

C23_LockState ==
    \A d \in Drivers :
        /\ lock[d].owner = <<>> <=> lock[d].count = 0
        /\ \A t \in Workers :
              /\ lock[d].owner = <<t>> => (frame[t].self = d /\ lock[d].count = Depth(t))
              /\ (frame[t].self = d /\ pc[t] # "idle" /\ Depth(t) > 0) => lock[d].owner = <<t>>

====
